---- MODULE Spec2Model ----
(***************************************************************************)
(* ThoughtSwap session server (socket.io + prisma), as a state machine.    *)
(*                                                                         *)
(* Every socket handler is an async function: it runs from one await to    *)
(* the next without interruption, and any other handler may run between    *)
(* two awaits.  A handler in flight is a task; one step of a task is       *)
(*   - the effect of one awaited store call together with the local code   *)
(*     that follows it, or                                                 *)
(*   - a continuation that reads or writes the process memory              *)
(*     (roomAssignments, room groups) or emits, kept as its own step so    *)
(*     that other handlers can run between the store call and it.          *)
(* io.in(room).fetchSockets() of the in-process adapter reads the group    *)
(* when it is called and resolves on a later tick: the read belongs to the *)
(* step that calls it, the code after it to a later step.                  *)
(***************************************************************************)
EXTENDS Integers, Sequences, FiniteSets, TLC

\* ------------------------------------------------------------------ bounds
MaxConns    == 4      \* sockets ever opened
MaxPrompts  == 2      \* PromptUse rows ever created
MaxThoughts == 3      \* Thought rows ever created
MaxQuota    == 2      \* largest maxSwapRequests a teacher sends
MaxOptions  == 7      \* most options a TEACHER_SEND_PROMPT carries
RoundPrompts  == 1    \* PromptUse rows, specification SpecRound
RoundThoughts == 2    \* Thought rows, specification SpecRound
SeqTasks    == 1      \* handlers in flight, sequential specifications
RaceTasks   == 2      \* handlers in flight, concurrent specifications
\* ------------------------------------------------------- program constants
MaxAttempts    == 10  \* TEACHER_START_CLASS: attempts < 10
DefaultMaxSwap == 1   \* session.create: maxSwapRequests: 1

\* T1 and T2 are teachers, S1 and S2 students; T1, S1 and S2 make up the class
Users    == {"T1", "T2", "S1", "S2"}
Class    == {"T1", "S1", "S2"}
Roles    == {"TEACHER", "STUDENT"}
Codes    == {"ABC123"}
\* the socket.io groups: one per join code, and 'admin_room'
AdminRoom == "admin_room"
Groups   == Codes \cup {AdminRoom}
Contents == {"A", "B"}
Conns    == 1..MaxConns
\* the payloads of TEACHER_SEND_PROMPT: content, type, number of non-empty options
PromptContents == {"", "Q"}
PromptTypes    == {"TEXT", "MC"}
OptionCounts   == {0, 1, 2, MaxOptions - 1, MaxOptions}
TaskIds  == 1..RaceTasks

\* The role stored with each User row (users.role); all users are registered
\* (non-guest) accounts, resolved with prisma.user.findUnique.
StoredRole(u) == IF u \in {"T1", "T2"} THEN "TEACHER" ELSE "STUDENT"
\* name of a user: the handshake's name and the stored User.name
UserName(u) == u

None      == "none"
Undefined == "undefined"

VARIABLES
    sock,             \* sockets: [st, user, role]  (role = handshake auth.role)
    rooms,            \* socket.io room groups: group name -> set of socket ids
    courses,          \* prisma.course:   joinCode -> [exists, teacherId]
    sessions,         \* prisma.session:  joinCode -> [exists, status, maxSwapRequests]
    promptUses,       \* prisma.promptUse: sequence, id = index, [session]
    thoughts,         \* prisma.thought:  sequence, id = index, [pu, author, content, live]
    swapRequests,     \* prisma.swapRequest: <<studentId, session>> -> number of rows
    roomAssignments,  \* joinCode -> [has, ent]: ent maps socket id -> entry
    tasks,            \* handlers in flight
    done,             \* the handler that completed in the last step (or IdleTask)
    inbox,            \* per socket: what the server has sent it
    casts             \* broadcastParticipantList calls in flight (never awaited)

vars == <<sock, rooms, courses, sessions, promptUses, thoughts, swapRequests,
          roomAssignments, tasks, done, inbox, casts>>

store == <<courses, sessions, promptUses, thoughts, swapRequests>>

\* ----------------------------------------------------------------- helpers
Max(S) == CHOOSE x \in S : \A y \in S : y <= x
Min(S) == CHOOSE x \in S : \A y \in S : x <= y
Range(f) == {f[i] : i \in DOMAIN f}

RECURSIVE SetToSeq(_)
SetToSeq(S) ==
    IF S = {} THEN <<>>
    ELSE LET x == CHOOSE y \in S : TRUE IN <<x>> \o SetToSeq(S \ {x})

NoCourse  == [exists |-> FALSE, teacherId |-> None]
NoSession == [exists |-> FALSE, status |-> None, maxSwapRequests |-> 0]
NoRoom    == [has |-> FALSE, ent |-> <<>>]
EmptyRoom == [has |-> TRUE, ent |-> <<>>]
\* parts, count: the participants and submissionCount of the last
\* PARTICIPANTS_UPDATE (count -1: none received)
NoInbox   == [swap |-> None, prompt |-> 0, ended |-> FALSE, parts |-> {},
              count |-> -1]
NoCast    == [pc |-> "idle", code |-> "", pu |-> 0, socks |-> {}, n |-> 0]
FreeSock  == [st |-> "free", user |-> None, role |-> None]

IdleTask == [op |-> "idle", c |-> 0, pc |-> "", code |-> "", n |-> 0, s |-> "",
             pu |-> 0, ths |-> <<>>, cs |-> <<>>, socks |-> {}, x |-> 0,
             out |-> <<>>, sent |-> <<>>, type |-> ""]

Open(c) == sock[c].st = "open"

\* io.in(joinCode).fetchSockets(): the connected sockets of the group
FetchSockets(code) == {c \in rooms[code] : Open(c)}
StudentSockets(S) == {c \in S : sock[c].role = "STUDENT"}
TeacherSockets(S) == {c \in S : sock[c].role = "TEACHER"}

\* prisma.promptUse.findFirst({where: {sessionId}, orderBy: {id: 'desc'}}); 0 = null
LatestPromptUse(code) ==
    LET ids == {i \in DOMAIN promptUses : promptUses[i].session = code}
    IN  IF ids = {} THEN 0 ELSE Max(ids)

\* prisma.thought.findMany({where: {promptUseId}}): ids in insertion order
FindThoughts(pu) ==
    SetToSeq({i \in DOMAIN thoughts : thoughts[i].live /\ thoughts[i].pu = pu})

\* a faulty variant of FindThoughtsNotBy: the author filter is missing
FindThoughtsAnyAuthor(pu, u) == FindThoughts(pu)

\* prisma.thought.findMany({where: {promptUseId, authorId: {not: userId}}})
FindThoughtsNotBy(pu, u) ==
    SetToSeq({i \in DOMAIN thoughts :
                thoughts[i].live /\ thoughts[i].pu = pu /\ thoughts[i].author # u})

\* prisma.swapRequest.count({where: {studentId, sessionId}})
CountSwapRequests(u, code) == swapRequests[<<u, code>>]

\* ------------------------------------------------------------- shuffleThoughts
RECURSIVE FillPool(_, _, _)
\* while (pool.length < n) pool = pool.concat(thoughts)
FillPool(pool, ths, n) ==
    IF Len(pool) < n THEN FillPool(pool \o ths, ths, n) ELSE pool

\* if (pool.length > n) pool = pool.slice(0, n)
SlicePool(pool, n) == IF Len(pool) > n THEN SubSeq(pool, 1, n) ELSE pool

Perms(n) == {p \in [1..n -> 1..n] : \A i, j \in 1..n : p[i] = p[j] => i = j}

\* a faulty variant of Shuffles: each position drawn from the whole pool
ShufflesWithRepeats(pool) ==
    {[i \in 1..Len(pool) |-> pool[f[i]]] : f \in [1..Len(pool) -> 1..Len(pool)]}

\* every outcome of the Fisher-Yates loop: every arrangement of the pool
Shuffles(pool) ==
    {[i \in 1..Len(pool) |-> pool[p[i]]] : p \in Perms(Len(pool))}

\* a faulty variant of AssignPool: the loop starts at the second recipient
AssignPoolFromSecond(pool, recipientIds) ==
    [r \in Range(recipientIds) \ {recipientIds[1]} |->
        pool[CHOOSE i \in 1..Len(recipientIds) : recipientIds[i] = r]]

\* assignments[recipientIds[i]] = pool[i]
AssignPool(pool, recipientIds) ==
    [r \in Range(recipientIds) |->
        pool[CHOOSE i \in 1..Len(recipientIds) : recipientIds[i] = r]]

\* The set of results shuffleThoughts can return, one per outcome of Math.random.
\* thoughtIds: the thoughts (by id, each read as {content, authorId, authorName});
\* a result maps a recipient socket id to the id of the thought it is given.
shuffleThoughts(thoughtIds, recipientIds) ==
    IF Len(thoughtIds) = 0 THEN {<<>>}
    ELSE {AssignPool(pool, recipientIds) :
            pool \in Shuffles(SlicePool(FillPool(thoughtIds, thoughtIds,
                                                 Len(recipientIds)),
                                        Len(recipientIds)))}

\* a roomAssignments entry made from thought i for socket c.  thoughtId,
\* authorId and promptUseId are not stored by the code: they record which
\* Thought row the entry was made from.
Entry(studentName, i) ==
    [studentName        |-> studentName,
     thoughtContent     |-> thoughts[i].content,
     originalAuthorName |-> UserName(thoughts[i].author),
     thoughtId          |-> i,
     authorId           |-> thoughts[i].author,
     promptUseId        |-> thoughts[i].pu]

\* --------------------------------------------------------------- emission
\* what a socket's inbox shows after it is sent event ev with value v
Seen(box, ev, v) ==
    CASE ev = "RECEIVE_SWAP"  -> [box EXCEPT !.swap = v]
      [] ev = "NEW_PROMPT"    -> [box EXCEPT !.prompt = v, !.swap = None]
      [] ev = "RESTORE_STATE" -> [box EXCEPT !.prompt = v]
      [] ev = "SESSION_ENDED" -> [box EXCEPT !.ended = TRUE]
      [] ev = "PARTICIPANTS_UPDATE" -> [box EXCEPT !.parts = v[1], !.count = v[2]]
      [] OTHER                -> box

\* io.to(...).emit / s.emit to the connected sockets of `to`
EmitTo(box, to, ev, v) ==
    [c \in Conns |-> IF c \in to /\ Open(c) THEN Seen(box[c], ev, v) ELSE box[c]]

\* socket.emit of the handler's own socket, also kept in the task's out; the
\* task's sent lists the other sockets it has emitted to one by one
\* (RECEIVE_SWAP in a swap or reassignment, THOUGHT_DELETED in a deletion)
Sent(t, ev, v) ==
    IF Open(t.c) THEN Append(t.out, <<ev, v>>) ELSE t.out

\* ------------------------------------------------------------------ tasks
InFlight == {i \in TaskIds : tasks[i].op # "idle"}
Casting  == {j \in TaskIds : casts[j].pc # "idle"}

Step(i, t)   == /\ tasks' = [tasks EXCEPT ![i] = t]
                /\ done' = IdleTask
Finish(i, t) == /\ tasks' = [tasks EXCEPT ![i] = IdleTask]
                /\ done' = [t EXCEPT !.pc = "done"]
\* a store call or a statement throws outside any try: the handler ends there
Throw(i, t)  == /\ tasks' = [tasks EXCEPT ![i] = IdleTask]
                /\ done' = [t EXCEPT !.pc = "threw"]
At(i, op, pc) == tasks[i].op = op /\ tasks[i].pc = pc
\* socket.join(joinCode); a closed socket is in no group that fetchSockets or
\* a room emit can see
Join(c, code) ==
    IF Open(c) THEN [rooms EXCEPT ![code] = @ \cup {c}] ELSE rooms
ActiveSession(code) ==
    sessions[code].exists /\ sessions[code].status = "ACTIVE"

\* a faulty variant of Permitted: the role is not compared
PermittedAlways(needs, role) == TRUE

\* if (!user || role !== 'TEACHER') return;  (needs "ANY": no such line)
Permitted(needs, role) == needs \in {"ANY", role}

\* A socket event arrives and the handler returns at its role check: nothing
\* is read, written or emitted.
Refuse(c, op, needs) ==
    /\ Open(c)
    /\ ~Permitted(needs, sock[c].role)
    /\ done' = [IdleTask EXCEPT !.op = op, !.c = c, !.pc = "done"]
    /\ UNCHANGED <<sock, rooms, store, roomAssignments, tasks, inbox, casts>>

\* A socket event arrives: the handler passes `await userPromise` and its role
\* check (the handshake's role), and issues its first store call.  k bounds
\* the handlers in flight.
Receive(k, c, op, needs, code, n, s, pc) ==
    /\ Cardinality(InFlight) + Cardinality(Casting) < k
    /\ Permitted(needs, sock[c].role)
    /\ Step(Min(TaskIds \ InFlight),
            [IdleTask EXCEPT !.op = op, !.c = c, !.pc = pc, !.code = code,
                             !.n = n, !.s = s])

Init ==
    /\ sock = [c \in Conns |-> FreeSock]
    /\ rooms = [g \in Groups |-> {}]
    /\ courses = [code \in Codes |-> NoCourse]
    /\ sessions = [code \in Codes |-> NoSession]
    /\ promptUses = <<>>
    /\ thoughts = <<>>
    /\ swapRequests = [k \in Users \X Codes |-> 0]
    /\ roomAssignments = [code \in Codes |-> NoRoom]
    /\ tasks = [i \in TaskIds |-> IdleTask]
    /\ done = IdleTask
    /\ inbox = [c \in Conns |-> NoInbox]
    /\ casts = [j \in TaskIds |-> NoCast]

\* --------------------------------------------------- broadcastParticipantList
\* A call of broadcastParticipantList(joinCode, activePromptUseId), which no
\* caller awaits: fetchSockets reads the group `sockets` at the call; the rest
\* runs later.  With no activePromptUseId there is no further await.
CallBroadcast(joinCode, activePromptUseId, sockets) ==
    casts' = [casts EXCEPT ![Min(TaskIds \ Casting)] =
                [pc    |-> IF activePromptUseId = 0 THEN "emit"
                           ELSE "thought.findMany",
                 code  |-> joinCode,
                 pu    |-> activePromptUseId,
                 socks |-> sockets,
                 n     |-> 0]]

\* prisma.thought.findMany({where: {promptUseId: activePromptUseId}}).length
CountSubmissions(activePromptUseId) == Len(FindThoughts(activePromptUseId))

broadcastParticipantList(j) ==
    LET b == casts[j]
    IN
    /\ b.pc # "idle"
    /\ IF b.pc = "thought.findMany"
       THEN /\ casts' = [casts EXCEPT ![j] =
                           [b EXCEPT !.pc = "emit", !.n = CountSubmissions(b.pu)]]
            /\ done' = IdleTask
            /\ UNCHANGED inbox
       ELSE \* teacherSockets.forEach(t => t.emit('PARTICIPANTS_UPDATE', ...))
            /\ inbox' = EmitTo(inbox, TeacherSockets(b.socks), "PARTICIPANTS_UPDATE",
                               <<StudentSockets(b.socks), b.n>>)
            /\ casts' = [casts EXCEPT ![j] = NoCast]
            /\ done' = [IdleTask EXCEPT !.op = "broadcastParticipantList",
                                        !.pc = "done", !.code = b.code,
                                        !.pu = b.pu, !.x = b.n,
                                        !.socks = {c \in TeacherSockets(b.socks) : Open(c)},
                                        !.cs = SetToSeq(StudentSockets(b.socks))]
    /\ UNCHANGED <<sock, rooms, store, roomAssignments, tasks>>

\* -------------------------------------------------------------- connection
\* io.on('connection'): the handshake names a user (email) and claims a role;
\* userPromise resolves to the stored User.
Connect(u, role, maxConns) ==
    /\ \E c \in 1..maxConns : sock[c].st = "free"
    /\ LET c == Min({d \in Conns : sock[d].st = "free"})
       IN  sock' = [sock EXCEPT ![c] = [st |-> "open", user |-> u, role |-> role]]
    /\ done' = IdleTask
    /\ UNCHANGED <<rooms, store, roomAssignments, tasks, inbox, casts>>

\* socket.io takes a closing socket out of its groups, then runs the
\* 'disconnect' handler; handlers of the socket already in flight run on.
Disconnect(k, c) ==
    /\ Open(c)
    /\ sock' = [sock EXCEPT ![c].st = "closed"]
    /\ rooms' = [g \in Groups |-> rooms[g] \ {c}]
    /\ IF sock[c].role = "TEACHER"
       THEN /\ Cardinality(InFlight) + Cardinality(Casting) < k
            /\ LET i == Min(TaskIds \ InFlight)
               IN  Step(i, [IdleTask EXCEPT !.op = "disconnect", !.c = c,
                                            !.pc = "session.findMany"])
       ELSE /\ done' = IdleTask
            /\ UNCHANGED tasks
    /\ UNCHANGED <<store, roomAssignments, inbox, casts>>

\* socket.on('disconnect') of a socket whose handshake role is TEACHER
DisconnectHandler(i) ==
    LET t == tasks[i]
        u == sock[t.c].user
    IN
    /\ t.op = "disconnect"
    /\ IF t.pc = "session.findMany"
       THEN LET found == SetToSeq({code \in Codes :
                                     /\ ActiveSession(code)
                                     /\ courses[code].teacherId = u})
            IN  /\ IF found = <<>> THEN Finish(i, t)
                   ELSE Step(i, [t EXCEPT !.pc = "session.update", !.cs = found])
                /\ UNCHANGED sessions
       ELSE \* session.update({where: {id}, data: {status: 'COMPLETED'}})
            /\ sessions' = [sessions EXCEPT ![Head(t.cs)].status = "COMPLETED"]
            /\ IF Tail(t.cs) = <<>> THEN Finish(i, [t EXCEPT !.cs = <<>>])
               ELSE Step(i, [t EXCEPT !.cs = Tail(t.cs)])
    /\ UNCHANGED <<sock, rooms, courses, promptUses, thoughts, swapRequests,
                   roomAssignments, inbox, casts>>

\* ------------------------------------------------------ TEACHER_START_CLASS
StartClassReceive(k, c) ==
    /\ Open(c)
    /\ \E code \in Codes :
        Receive(k, c, "TEACHER_START_CLASS", "TEACHER", code, 0, "",
                "course.findUnique")
    /\ UNCHANGED <<sock, rooms, store, roomAssignments, inbox, casts>>

\* a faulty variant of JoinCodeTaken: no unique index on courses.joinCode
JoinCodeFree(joinCode) == FALSE

\* CREATE UNIQUE INDEX "courses_joinCode_key": a row with this code exists
JoinCodeTaken(joinCode) == courses[joinCode].exists

StartClass(i) ==
    LET t == tasks[i]
        u == sock[t.c].user
    IN
    /\ t.op = "TEACHER_START_CLASS"
    /\ CASE t.pc = "course.findUnique" ->
            \* while ((await findUnique({joinCode})) && attempts < 10)
            /\ IF courses[t.code].exists /\ t.x < MaxAttempts
               THEN \E code \in Codes :
                        Step(i, [t EXCEPT !.code = code, !.x = t.x + 1])
               ELSE Step(i, [t EXCEPT !.pc = "course.create"])
            /\ UNCHANGED <<sock, rooms, store, roomAssignments, inbox, casts>>
         [] t.pc = "course.create" ->
            \* courses_joinCode_key: a second Course of the same code is rejected
            /\ IF JoinCodeTaken(t.code)
               THEN Throw(i, t) /\ UNCHANGED courses
               ELSE /\ courses' = [courses EXCEPT ![t.code] =
                                     [exists |-> TRUE, teacherId |-> u]]
                    /\ Step(i, [t EXCEPT !.pc = "session.create"])
            /\ UNCHANGED <<sock, rooms, sessions, promptUses, thoughts,
                           swapRequests, roomAssignments, inbox, casts>>
         [] t.pc = "session.create" ->
            /\ sessions' = [sessions EXCEPT ![t.code] =
                              [exists |-> TRUE, status |-> "ACTIVE",
                               maxSwapRequests |-> DefaultMaxSwap]]
            /\ Step(i, [t EXCEPT !.pc = "started"])
            /\ UNCHANGED <<sock, rooms, courses, promptUses, thoughts,
                           swapRequests, roomAssignments, inbox, casts>>
         [] t.pc = "started" ->
            /\ roomAssignments' = [roomAssignments EXCEPT ![t.code] = EmptyRoom]
            /\ rooms' = Join(t.c, t.code)
            /\ Finish(i, [t EXCEPT !.out = Sent(t, "CLASS_STARTED", t.code)])
            /\ CallBroadcast(t.code, 0, {c \in Join(t.c, t.code)[t.code] : Open(c)})
            /\ UNCHANGED <<sock, store, inbox>>

\* ---------------------------------------------------------------- JOIN_ROOM
\* assignment.content of a roomAssignments entry
EntryContent(e) == IF "content" \in DOMAIN e THEN e.content ELSE Undefined

JoinRoomReceive(k, c) ==
    /\ Open(c)
    /\ \E code \in Codes :
        Receive(k, c, "JOIN_ROOM", "ANY", code, 0, "", "course.findUnique")
    /\ UNCHANGED <<sock, rooms, store, roomAssignments, inbox, casts>>

JoinRoom(i) ==
    LET t == tasks[i]
        u == sock[t.c].user
        ra == roomAssignments[t.code]
    IN
    /\ t.op = "JOIN_ROOM"
    /\ CASE t.pc = "course.findUnique" ->
            /\ IF ~courses[t.code].exists
               THEN Finish(i, [t EXCEPT !.out = Sent(t, "ERROR", "Invalid Room Code")])
               ELSE Step(i, [t EXCEPT !.pc = "session.findFirst"])
            /\ UNCHANGED <<rooms, inbox, casts>>
         [] t.pc = "session.findFirst" ->
            /\ IF ~ActiveSession(t.code)
               THEN Finish(i, [t EXCEPT !.out =
                                 Sent(t, "ERROR", "This class session has ended.")])
               ELSE Step(i, [t EXCEPT !.pc = "join"])
            /\ UNCHANGED <<rooms, inbox, casts>>
         [] t.pc = "join" ->
            /\ rooms' = Join(t.c, t.code)
            /\ Step(i, [t EXCEPT !.pc = "promptUse.findFirst",
                                 !.out = Sent(t, "JOIN_SUCCESS", t.code)])
            /\ UNCHANGED <<inbox, casts>>
         [] t.pc = "promptUse.findFirst" ->
            /\ IF LatestPromptUse(t.code) = 0
               THEN /\ Finish(i, t)
                    /\ CallBroadcast(t.code, 0, FetchSockets(t.code))
               ELSE /\ Step(i, [t EXCEPT !.pc = "thought.findFirst",
                                         !.pu = LatestPromptUse(t.code)])
                    /\ UNCHANGED casts
            /\ UNCHANGED <<rooms, inbox>>
         [] t.pc = "thought.findFirst" ->
            \* x = 1: existingThought is not null
            /\ Step(i, [t EXCEPT !.pc = "restore",
                                 !.x = IF \E j \in DOMAIN thoughts :
                                             /\ thoughts[j].live
                                             /\ thoughts[j].pu = t.pu
                                             /\ thoughts[j].author = u
                                        THEN 1 ELSE 0])
            /\ UNCHANGED <<rooms, inbox, casts>>
         [] t.pc = "restore" ->
            /\ IF t.x = 1
               THEN IF ra.has /\ t.c \in DOMAIN ra.ent
                    THEN LET content == EntryContent(ra.ent[t.c])
                             t1 == [t EXCEPT !.out = Sent(t, "RECEIVE_SWAP", content)]
                         IN /\ Finish(i, [t1 EXCEPT !.out =
                                            Sent(t1, "RESTORE_STATE", "DISCUSSING")])
                            /\ inbox' = EmitTo(EmitTo(inbox, {t.c}, "RECEIVE_SWAP",
                                                      content),
                                               {t.c}, "RESTORE_STATE", t.pu)
                    ELSE /\ Finish(i, [t EXCEPT !.out =
                                         Sent(t, "RESTORE_STATE", "SUBMITTED")])
                         /\ inbox' = EmitTo(inbox, {t.c}, "RESTORE_STATE", t.pu)
               ELSE /\ Finish(i, [t EXCEPT !.out = Sent(t, "NEW_PROMPT", "")])
                    /\ inbox' = EmitTo(inbox, {t.c}, "NEW_PROMPT", t.pu)
            /\ CallBroadcast(t.code, t.pu, FetchSockets(t.code))
            /\ UNCHANGED rooms
    /\ UNCHANGED <<sock, store, roomAssignments>>

\* ------------------------------------------------------ TEACHER_SEND_PROMPT
Flying(op) == Cardinality({i \in TaskIds : tasks[i].op = op})

SendPromptReceive(k, c, maxPrompts) ==
    /\ Open(c)
    /\ Len(promptUses) + Flying("TEACHER_SEND_PROMPT") < maxPrompts
    /\ \E code \in Codes :
        Receive(k, c, "TEACHER_SEND_PROMPT", "TEACHER", code, 0, "",
                "course.findUnique")
    /\ UNCHANGED <<sock, rooms, store, roomAssignments, inbox, casts>>

\* TEACHER_SEND_PROMPT with any payload {joinCode, content, type, options}:
\* s = content, n = the number of non-empty options
SendAnyPromptReceive(k, c, maxPrompts) ==
    /\ Open(c)
    /\ Len(promptUses) + Flying("TEACHER_SEND_PROMPT") < maxPrompts
    /\ Cardinality(InFlight) + Cardinality(Casting) < k
    /\ sock[c].role = "TEACHER"
    /\ \E code \in Codes, content \in PromptContents, type \in PromptTypes,
          options \in OptionCounts :
        Step(Min(TaskIds \ InFlight),
             [IdleTask EXCEPT !.op = "TEACHER_SEND_PROMPT", !.c = c,
                              !.pc = "course.findUnique", !.code = code,
                              !.s = content, !.type = type, !.n = options])
    /\ UNCHANGED <<sock, rooms, store, roomAssignments, inbox, casts>>

SendPrompt(i) ==
    LET t == tasks[i]
    IN
    /\ t.op = "TEACHER_SEND_PROMPT"
    /\ CASE t.pc = "course.findUnique" ->
            /\ IF ~courses[t.code].exists THEN Finish(i, t)
               ELSE Step(i, [t EXCEPT !.pc = "session.findFirst"])
            /\ UNCHANGED <<promptUses, roomAssignments, inbox, casts>>
         [] t.pc = "session.findFirst" ->
            /\ IF ~ActiveSession(t.code) THEN Finish(i, t)
               ELSE Step(i, [t EXCEPT !.pc = "promptUse.create"])
            /\ UNCHANGED <<promptUses, roomAssignments, inbox, casts>>
         [] t.pc = "promptUse.create" ->
            /\ promptUses' = Append(promptUses, [session |-> t.code])
            /\ Step(i, [t EXCEPT !.pc = "announce", !.pu = Len(promptUses) + 1])
            /\ UNCHANGED <<roomAssignments, inbox, casts>>
         [] t.pc = "announce" ->
            /\ roomAssignments' = [roomAssignments EXCEPT ![t.code] = EmptyRoom]
            /\ inbox' = EmitTo(inbox, FetchSockets(t.code), "NEW_PROMPT", t.pu)
            /\ Finish(i, [t EXCEPT !.out = Sent(t, "THOUGHTS_UPDATE", "")])
            /\ CallBroadcast(t.code, t.pu, FetchSockets(t.code))
            /\ UNCHANGED promptUses
    /\ UNCHANGED <<sock, rooms, courses, sessions, thoughts, swapRequests>>

\* ----------------------------------------------------------- SUBMIT_THOUGHT
SubmitThoughtReceive(k, c, maxThoughts) ==
    /\ Open(c)
    /\ Len(thoughts) + Flying("SUBMIT_THOUGHT") < maxThoughts
    /\ \E code \in Codes, promptUseId \in 0..MaxPrompts, content \in Contents :
        Receive(k, c, "SUBMIT_THOUGHT", "ANY", code, promptUseId, content,
                "thought.create")
    /\ UNCHANGED <<sock, rooms, store, roomAssignments, inbox, casts>>

SubmitThought(i) ==
    LET t == tasks[i]
        u == sock[t.c].user
    IN
    /\ t.op = "SUBMIT_THOUGHT"
    /\ IF t.n = 0
       THEN \* if (promptUseId) { ... }
            Finish(i, t) /\ UNCHANGED <<thoughts, casts>>
       ELSE IF t.n \notin DOMAIN promptUses
       THEN \* the row names no PromptUse: the insert is rejected
            Throw(i, t) /\ UNCHANGED <<thoughts, casts>>
       ELSE /\ thoughts' = Append(thoughts, [pu |-> t.n, author |-> u,
                                             content |-> t.s, live |-> TRUE])
            /\ Finish(i, t)
            /\ CallBroadcast(t.code, t.n, FetchSockets(t.code))
    /\ UNCHANGED <<sock, rooms, courses, sessions, promptUses, swapRequests,
                   roomAssignments, inbox>>

\* --------------------------------------------------- TEACHER_DELETE_THOUGHT
DeleteThoughtReceive(k, c) ==
    /\ Open(c)
    /\ \E code \in Codes, thoughtId \in 1..MaxThoughts :
        Receive(k, c, "TEACHER_DELETE_THOUGHT", "TEACHER", code, thoughtId, "",
                "thought.findUnique")
    /\ UNCHANGED <<sock, rooms, store, roomAssignments, inbox, casts>>

\* a faulty variant of AuthorSockets: any socket of the room
AnySockets(sockets, authorId) == sockets

\* sockets.find(s => s.data.userId === thought.authorId): the candidates
AuthorSockets(sockets, authorId) == {c \in sockets : sock[c].user = authorId}

DeleteThought(i) ==
    LET t == tasks[i]
        live == t.n \in DOMAIN thoughts /\ thoughts[t.n].live
    IN
    /\ t.op = "TEACHER_DELETE_THOUGHT"
    /\ CASE t.pc = "thought.findUnique" ->
            /\ IF ~live THEN Finish(i, t)
               ELSE Step(i, [t EXCEPT !.pc = "fetchSockets"])
            /\ UNCHANGED <<thoughts, inbox, casts>>
         [] t.pc = "fetchSockets" ->
            \* sockets.find(s => s.data.userId === thought.authorId); x = 0: none
            /\ LET authors == AuthorSockets(FetchSockets(t.code),
                                            thoughts[t.n].author)
               IN  IF authors = {}
                   THEN Step(i, [t EXCEPT !.pc = "thought.delete", !.x = 0])
                   ELSE \E c \in authors :
                            Step(i, [t EXCEPT !.pc = "thought.delete", !.x = c])
            /\ UNCHANGED <<thoughts, inbox, casts>>
         [] t.pc = "thought.delete" ->
            \* deleting a row that is gone throws into the handler's catch
            /\ IF ~live THEN Finish(i, t) /\ UNCHANGED <<thoughts, casts>>
               ELSE /\ thoughts' = [thoughts EXCEPT ![t.n].live = FALSE]
                    /\ Step(i, [t EXCEPT !.pc = "notify"])
                    /\ UNCHANGED casts
            /\ UNCHANGED inbox
         [] t.pc = "notify" ->
            \* the code after `await prisma.thought.delete`
            /\ CallBroadcast(t.code, thoughts[t.n].pu, FetchSockets(t.code))
            /\ inbox' = EmitTo(inbox, {t.x} \cap Conns, "THOUGHT_DELETED", "")
            /\ Finish(i, [t EXCEPT !.sent = SetToSeq({c \in {t.x} \cap Conns : Open(c)})])
            /\ UNCHANGED thoughts
    /\ UNCHANGED <<sock, rooms, courses, sessions, promptUses, swapRequests,
                   roomAssignments>>

\* ------------------------------------------------------------- TRIGGER_SWAP
TriggerSwapReceive(k, c) ==
    /\ Open(c)
    /\ \E code \in Codes :
        Receive(k, c, "TRIGGER_SWAP", "TEACHER", code, 0, "", "course.findUnique")
    /\ UNCHANGED <<sock, rooms, store, roomAssignments, inbox, casts>>

\* studentSockets.forEach: the entry written for recipient s and the
\* RECEIVE_SWAP sent to it
WriteAssignments(ra, a) ==
    IF DOMAIN a = {} THEN ra
    ELSE [has |-> TRUE,
          ent |-> [s \in (IF ra.has THEN DOMAIN ra.ent ELSE {}) \cup DOMAIN a |->
                     IF s \in DOMAIN a
                     THEN Entry(UserName(sock[s].user), a[s])
                     ELSE ra.ent[s]]]

RECURSIVE EmitSwaps(_, _, _)
EmitSwaps(box, a, rs) ==
    IF rs = {} THEN box
    ELSE LET s == CHOOSE r \in rs : TRUE
         IN  EmitSwaps(EmitTo(box, {s}, "RECEIVE_SWAP", thoughts[a[s]].content),
                       a, rs \ {s})

\* a faulty variant of NoThoughts: the check is missing
NeverNoThoughts(ths) == FALSE

\* if (thoughts.length === 0)
NoThoughts(ths) == Len(ths) = 0

TriggerSwap(i) ==
    LET t == tasks[i]
    IN
    /\ t.op = "TRIGGER_SWAP"
    /\ CASE t.pc = "course.findUnique" ->
            /\ IF ~courses[t.code].exists THEN Finish(i, t)
               ELSE Step(i, [t EXCEPT !.pc = "session.findFirst"])
            /\ UNCHANGED <<roomAssignments, inbox>>
         [] t.pc = "session.findFirst" ->
            /\ IF ~ActiveSession(t.code) THEN Finish(i, t)
               ELSE Step(i, [t EXCEPT !.pc = "promptUse.findFirst"])
            /\ UNCHANGED <<roomAssignments, inbox>>
         [] t.pc = "promptUse.findFirst" ->
            /\ IF LatestPromptUse(t.code) = 0
               THEN Finish(i, [t EXCEPT !.out =
                                 Sent(t, "ERROR", "No active prompt found to swap.")])
               ELSE Step(i, [t EXCEPT !.pc = "thought.findMany",
                                      !.pu = LatestPromptUse(t.code)])
            /\ UNCHANGED <<roomAssignments, inbox>>
         [] t.pc = "thought.findMany" ->
            /\ Step(i, [t EXCEPT !.pc = "fetchSockets", !.ths = FindThoughts(t.pu)])
            /\ UNCHANGED <<roomAssignments, inbox>>
         [] t.pc = "fetchSockets" ->
            /\ Step(i, [t EXCEPT !.pc = "swap", !.socks = FetchSockets(t.code)])
            /\ UNCHANGED <<roomAssignments, inbox>>
         [] t.pc = "swap" ->
            IF NoThoughts(t.ths)
            THEN /\ Finish(i, [t EXCEPT !.out =
                                 Sent(t, "ERROR", "No thoughts submitted yet!")])
                 /\ UNCHANGED <<roomAssignments, inbox>>
            ELSE \E a \in shuffleThoughts(t.ths, SetToSeq(StudentSockets(t.socks))) :
                    /\ roomAssignments' =
                         [roomAssignments EXCEPT ![t.code] = WriteAssignments(@, a)]
                    /\ inbox' = EmitSwaps(inbox, a, DOMAIN a)
                    /\ Finish(i, [t EXCEPT !.x = Cardinality(DOMAIN a),
                                           !.sent = SetToSeq(DOMAIN a),
                                           !.out = Sent(t, "SWAP_COMPLETED", "")])
    /\ UNCHANGED <<sock, rooms, store, casts>>

\* -------------------------------------------------------------- END_SESSION
EndSessionReceive(k, c) ==
    /\ Open(c)
    /\ \E code \in Codes :
        Receive(k, c, "END_SESSION", "TEACHER", code, 0, "", "course.findUnique")
    /\ UNCHANGED <<sock, rooms, store, roomAssignments, inbox, casts>>

\* session.updateMany({where: {courseId, status: 'ACTIVE'},
\*                     data: {status: 'COMPLETED'}}) on one row
MarkCompleted(status) == IF status = "ACTIVE" THEN "COMPLETED" ELSE status

EndSession(i) ==
    LET t == tasks[i]
    IN
    /\ t.op = "END_SESSION"
    /\ CASE t.pc = "course.findUnique" ->
            /\ IF courses[t.code].exists
               THEN Step(i, [t EXCEPT !.pc = "session.updateMany"])
               ELSE Step(i, [t EXCEPT !.pc = "emit"])
            /\ UNCHANGED <<rooms, sessions, roomAssignments, inbox>>
         [] t.pc = "session.updateMany" ->
            /\ sessions' = [sessions EXCEPT ![t.code].status = MarkCompleted(@)]
            /\ Step(i, [t EXCEPT !.pc = "emit"])
            /\ UNCHANGED <<rooms, roomAssignments, inbox>>
         [] t.pc = "emit" ->
            \* io.to(joinCode).emit('SESSION_ENDED'), then fetchSockets is called
            /\ inbox' = EmitTo(inbox, FetchSockets(t.code), "SESSION_ENDED", "")
            /\ Step(i, [t EXCEPT !.pc = "leave", !.socks = FetchSockets(t.code)])
            /\ UNCHANGED <<rooms, sessions, roomAssignments>>
         [] t.pc = "leave" ->
            /\ rooms' = [rooms EXCEPT ![t.code] = @ \ t.socks]
            /\ roomAssignments' = [roomAssignments EXCEPT ![t.code] = NoRoom]
            /\ Finish(i, t)
            /\ UNCHANGED <<sessions, inbox>>
    /\ UNCHANGED <<sock, courses, promptUses, thoughts, swapRequests, casts>>

\* ---------------------------------------------- STUDENT_REQUEST_NEW_THOUGHT
RequestNewThoughtReceive(k, c) ==
    /\ Open(c)
    /\ \E code \in Codes, currentThoughtContent \in Contents \cup {Undefined} :
        Receive(k, c, "STUDENT_REQUEST_NEW_THOUGHT", "STUDENT", code, 0,
                currentThoughtContent, "course.findUnique")
    /\ UNCHANGED <<sock, rooms, store, roomAssignments, inbox, casts>>

\* a faulty variant of LimitReached: off by one
LimitExceeded(requestsCount, maxSwapRequests) == requestsCount > maxSwapRequests

\* if (requestsCount >= session.maxSwapRequests)
LimitReached(requestsCount, maxSwapRequests) == requestsCount >= maxSwapRequests

RequestNewThought(i) ==
    LET t == tasks[i]
        u == sock[t.c].user
        ra == roomAssignments[t.code]
    IN
    /\ t.op = "STUDENT_REQUEST_NEW_THOUGHT"
    /\ CASE t.pc = "course.findUnique" ->
            /\ IF ~courses[t.code].exists THEN Finish(i, t)
               ELSE Step(i, [t EXCEPT !.pc = "session.findFirst"])
            /\ UNCHANGED <<swapRequests, roomAssignments, inbox>>
         [] t.pc = "session.findFirst" ->
            \* x = session.maxSwapRequests as read here
            /\ IF ~ActiveSession(t.code) THEN Finish(i, t)
               ELSE Step(i, [t EXCEPT !.pc = "promptUse.findFirst",
                                      !.x = sessions[t.code].maxSwapRequests])
            /\ UNCHANGED <<swapRequests, roomAssignments, inbox>>
         [] t.pc = "promptUse.findFirst" ->
            /\ IF LatestPromptUse(t.code) = 0 THEN Finish(i, t)
               ELSE Step(i, [t EXCEPT !.pc = "swapRequest.count",
                                      !.pu = LatestPromptUse(t.code)])
            /\ UNCHANGED <<swapRequests, roomAssignments, inbox>>
         [] t.pc = "swapRequest.count" ->
            /\ IF LimitReached(CountSwapRequests(u, t.code), t.x)
               THEN Finish(i, [t EXCEPT !.out = Sent(t, "ERROR", "Limit reached.")])
               ELSE Step(i, [t EXCEPT !.pc = "thought.findMany"])
            /\ UNCHANGED <<swapRequests, roomAssignments, inbox>>
         [] t.pc = "thought.findMany" ->
            \* available = allThoughts.filter(t => t.content !== currentThoughtContent);
            \* n = the thought picked by Math.random
            /\ LET available == {j \in Range(FindThoughtsNotBy(t.pu, u)) :
                                   thoughts[j].content # t.s}
               IN  IF available = {}
                   THEN Finish(i, [t EXCEPT !.out = Sent(t, "ERROR",
                               "No other different thoughts available to swap.")])
                   ELSE \E j \in available :
                            Step(i, [t EXCEPT !.pc = "swapRequest.create", !.n = j])
            /\ UNCHANGED <<swapRequests, roomAssignments, inbox>>
         [] t.pc = "swapRequest.create" ->
            /\ swapRequests' = [swapRequests EXCEPT ![<<u, t.code>>] = @ + 1]
            /\ Step(i, [t EXCEPT !.pc = "entry"])
            /\ UNCHANGED <<roomAssignments, inbox>>
         [] t.pc = "entry" ->
            /\ IF ra.has /\ t.c \in DOMAIN ra.ent
               THEN /\ roomAssignments' =
                         [roomAssignments EXCEPT ![t.code].ent[t.c] =
                            Entry(UserName(u), t.n)]
                    /\ Step(i, [t EXCEPT !.pc = "notify",
                                         !.socks = FetchSockets(t.code)])
                    /\ UNCHANGED inbox
               ELSE /\ inbox' = EmitTo(inbox, {t.c}, "RECEIVE_SWAP",
                                       thoughts[t.n].content)
                    /\ Finish(i, [t EXCEPT !.out = Sent(t, "RECEIVE_SWAP",
                                                        thoughts[t.n].content)])
                    /\ UNCHANGED roomAssignments
            /\ UNCHANGED swapRequests
         [] t.pc = "notify" ->
            /\ inbox' = EmitTo(EmitTo(inbox, TeacherSockets(t.socks),
                                      "DISTRIBUTION_UPDATE", ""),
                               {t.c}, "RECEIVE_SWAP", thoughts[t.n].content)
            /\ Finish(i, [t EXCEPT !.out = Sent(t, "RECEIVE_SWAP",
                                                thoughts[t.n].content)])
            /\ UNCHANGED <<swapRequests, roomAssignments>>
    /\ UNCHANGED <<sock, rooms, courses, sessions, promptUses, thoughts, casts>>

\* -------------------------------------------- TEACHER_REASSIGN_DISTRIBUTION
ReassignReceive(k, c) ==
    /\ Open(c)
    /\ \E code \in Codes, studentSocketId \in Conns :
        Receive(k, c, "TEACHER_REASSIGN_DISTRIBUTION", "TEACHER", code,
                studentSocketId, "", "course.findUnique")
    /\ UNCHANGED <<sock, rooms, store, roomAssignments, inbox, casts>>

\* a faulty variant of ReassignPool: the current assignment is not filtered out
ReassignPoolAll(allThoughts, available) == allThoughts

\* const pool = available.length > 0 ? available : allThoughts
ReassignPool(allThoughts, available) ==
    IF available # {} THEN available ELSE allThoughts

Reassign(i) ==
    LET t == tasks[i]
        ra == roomAssignments[t.code]
    IN
    /\ t.op = "TEACHER_REASSIGN_DISTRIBUTION"
    /\ CASE t.pc = "course.findUnique" ->
            /\ IF ~courses[t.code].exists THEN Finish(i, t)
               ELSE Step(i, [t EXCEPT !.pc = "session.findFirst"])
            /\ UNCHANGED <<roomAssignments, inbox>>
         [] t.pc = "session.findFirst" ->
            /\ IF ~ActiveSession(t.code) THEN Finish(i, t)
               ELSE Step(i, [t EXCEPT !.pc = "entry"])
            /\ UNCHANGED <<roomAssignments, inbox>>
         [] t.pc = "entry" ->
            \* s = targetStudentAssignment.thoughtContent
            /\ IF ~(ra.has /\ t.n \in DOMAIN ra.ent) THEN Finish(i, t)
               ELSE Step(i, [t EXCEPT !.pc = "promptUse.findFirst",
                                      !.s = ra.ent[t.n].thoughtContent])
            /\ UNCHANGED <<roomAssignments, inbox>>
         [] t.pc = "promptUse.findFirst" ->
            /\ IF LatestPromptUse(t.code) = 0 THEN Finish(i, t)
               ELSE Step(i, [t EXCEPT !.pc = "fetchSockets",
                                      !.pu = LatestPromptUse(t.code)])
            /\ UNCHANGED <<roomAssignments, inbox>>
         [] t.pc = "fetchSockets" ->
            /\ IF t.n \notin FetchSockets(t.code) THEN Finish(i, t)
               ELSE Step(i, [t EXCEPT !.pc = "thought.findMany",
                                      !.socks = FetchSockets(t.code)])
            /\ UNCHANGED <<roomAssignments, inbox>>
         [] t.pc = "thought.findMany" ->
            /\ Step(i, [t EXCEPT !.pc = "assign",
                                 !.ths = FindThoughtsNotBy(t.pu, sock[t.n].user)])
            /\ UNCHANGED <<roomAssignments, inbox>>
         [] t.pc = "assign" ->
            LET allThoughts == Range(t.ths)
                available == {j \in allThoughts : thoughts[j].content # t.s}
                pool == ReassignPool(allThoughts, available)
            IN  IF pool = {}
                THEN Finish(i, t) /\ UNCHANGED <<roomAssignments, inbox>>
                ELSE IF ~ra.has
                THEN \* roomAssignments[joinCode] is undefined: the write throws
                     Throw(i, t) /\ UNCHANGED <<roomAssignments, inbox>>
                ELSE \E j \in pool :
                        /\ roomAssignments' =
                             [roomAssignments EXCEPT ![t.code].ent =
                                [s \in DOMAIN ra.ent \cup {t.n} |->
                                   IF s = t.n
                                   THEN Entry(UserName(sock[t.n].user), j)
                                   ELSE ra.ent[s]]]
                        /\ inbox' = EmitTo(EmitTo(inbox, {t.n}, "RECEIVE_SWAP",
                                                  thoughts[j].content),
                                           TeacherSockets(t.socks),
                                           "DISTRIBUTION_UPDATE", "")
                        /\ Finish(i, [t EXCEPT !.sent = <<t.n>>])
    /\ UNCHANGED <<sock, rooms, store, casts>>

\* -------------------------------------------------- UPDATE_SESSION_SETTINGS
\* parseInt(maxSwapRequests) || 1
ParseQuota(n) == IF n = 0 THEN 1 ELSE n

UpdateSettingsReceive(k, c) ==
    /\ Open(c)
    /\ \E code \in Codes, maxSwapRequests \in 0..MaxQuota :
        Receive(k, c, "UPDATE_SESSION_SETTINGS", "TEACHER", code,
                maxSwapRequests, "", "course.findUnique")
    /\ UNCHANGED <<sock, rooms, store, roomAssignments, inbox, casts>>

UpdateSettings(i) ==
    LET t == tasks[i]
    IN
    /\ t.op = "UPDATE_SESSION_SETTINGS"
    /\ CASE t.pc = "course.findUnique" ->
            /\ IF ~courses[t.code].exists THEN Finish(i, t)
               ELSE Step(i, [t EXCEPT !.pc = "session.findFirst"])
            /\ UNCHANGED sessions
         [] t.pc = "session.findFirst" ->
            /\ IF ~ActiveSession(t.code) THEN Finish(i, t)
               ELSE Step(i, [t EXCEPT !.pc = "session.update"])
            /\ UNCHANGED sessions
         [] t.pc = "session.update" ->
            /\ sessions' = [sessions EXCEPT ![t.code].maxSwapRequests =
                              ParseQuota(t.n)]
            /\ Finish(i, t)
    /\ UNCHANGED <<sock, rooms, courses, promptUses, thoughts, swapRequests,
                   roomAssignments, inbox, casts>>

\* ----------------------------------------------------------- TEACHER_REJOIN
RejoinReceive(k, c) ==
    /\ Open(c)
    /\ \E code \in Codes :
        Receive(k, c, "TEACHER_REJOIN", "TEACHER", code, 0, "", "course.findUnique")
    /\ UNCHANGED <<sock, rooms, store, roomAssignments, inbox, casts>>

Rejoin(i) ==
    LET t == tasks[i]
        u == sock[t.c].user
    IN
    /\ t.op = "TEACHER_REJOIN"
    /\ CASE t.pc = "course.findUnique" ->
            /\ IF ~courses[t.code].exists \/ courses[t.code].teacherId # u
               THEN Finish(i, [t EXCEPT !.out =
                                 Sent(t, "ERROR", "Invalid session or unauthorized.")])
               ELSE Step(i, [t EXCEPT !.pc = "session.findFirst"])
            /\ UNCHANGED <<rooms, casts>>
         [] t.pc = "session.findFirst" ->
            /\ IF ~ActiveSession(t.code)
               THEN Finish(i, [t EXCEPT !.out = Sent(t, "ERROR", "Session ended.")])
               ELSE Step(i, [t EXCEPT !.pc = "join"])
            /\ UNCHANGED <<rooms, casts>>
         [] t.pc = "join" ->
            /\ rooms' = Join(t.c, t.code)
            /\ Step(i, [t EXCEPT !.pc = "promptUse.findFirst",
                                 !.out = Sent(t, "CLASS_STARTED", t.code)])
            /\ UNCHANGED casts
         [] t.pc = "promptUse.findFirst" ->
            /\ IF LatestPromptUse(t.code) = 0 THEN Finish(i, t)
               ELSE Step(i, [t EXCEPT !.pc = "thought.findMany",
                                      !.pu = LatestPromptUse(t.code)])
            /\ CallBroadcast(t.code, LatestPromptUse(t.code), FetchSockets(t.code))
            /\ UNCHANGED rooms
         [] t.pc = "thought.findMany" ->
            /\ Finish(i, [t EXCEPT !.ths = FindThoughts(t.pu),
                                   !.out = Sent(t, "THOUGHTS_UPDATE", "")])
            /\ UNCHANGED <<rooms, casts>>
    /\ UNCHANGED <<sock, store, roomAssignments, inbox>>

\* ------------------------------------------------------ TEACHER_RESET_STATE
ResetStateReceive(k, c) ==
    /\ Open(c)
    /\ \E code \in Codes :
        Receive(k, c, "TEACHER_RESET_STATE", "TEACHER", code, 0, "",
                "course.findUnique")
    /\ UNCHANGED <<sock, rooms, store, roomAssignments, inbox, casts>>

ResetState(i) ==
    LET t == tasks[i]
    IN
    /\ t.op = "TEACHER_RESET_STATE"
    /\ CASE t.pc = "course.findUnique" ->
            /\ IF ~courses[t.code].exists THEN Finish(i, t)
               ELSE Step(i, [t EXCEPT !.pc = "reset"])
            /\ UNCHANGED <<roomAssignments, inbox, casts>>
         [] t.pc = "reset" ->
            /\ roomAssignments' = [roomAssignments EXCEPT ![t.code] =
                                     IF @.has THEN EmptyRoom ELSE @]
            /\ inbox' = EmitTo(inbox, FetchSockets(t.code), "RESET_CLIENT_STATE", "")
            /\ CallBroadcast(t.code, 0, FetchSockets(t.code))
            /\ Finish(i, t)
    /\ UNCHANGED <<sock, rooms, store>>

\* ----------------------------------------------------------- specifications
Quiet == InFlight = {} /\ Casting = {}

\* an inbox after a PARTICIPANTS_UPDATE {participants, submissionCount}
Heard(box, participants, submissionCount) ==
    Seen(box, "PARTICIPANTS_UPDATE", <<participants, submissionCount>>)

\* A class in progress: T1 (socket 1) has run TEACHER_START_CLASS, S1 (socket 2)
\* and S2 (socket 3) have run JOIN_ROOM; every broadcast has been delivered.
ClassRunning ==
    /\ sock = [c \in Conns |->
                 CASE c = 1 -> [st |-> "open", user |-> "T1", role |-> "TEACHER"]
                   [] c = 2 -> [st |-> "open", user |-> "S1", role |-> "STUDENT"]
                   [] c = 3 -> [st |-> "open", user |-> "S2", role |-> "STUDENT"]
                   [] OTHER -> FreeSock]
    /\ rooms = [g \in Groups |-> IF g \in Codes THEN {1, 2, 3} ELSE {}]
    /\ courses = [code \in Codes |-> [exists |-> TRUE, teacherId |-> "T1"]]
    /\ sessions = [code \in Codes |->
                     [exists |-> TRUE, status |-> "ACTIVE",
                      maxSwapRequests |-> DefaultMaxSwap]]
    /\ swapRequests = [k \in Users \X Codes |-> 0]
    /\ roomAssignments = [code \in Codes |-> EmptyRoom]
    /\ tasks = [i \in TaskIds |-> IdleTask]
    /\ casts = [j \in TaskIds |-> NoCast]

ClassInit ==
    /\ ClassRunning
    /\ promptUses = <<>>
    /\ thoughts = <<>>
    /\ inbox = [c \in Conns |-> IF c = 1 THEN Heard(NoInbox, {2, 3}, 0) ELSE NoInbox]
    /\ done = IdleTask

\* A round in progress: in the class above T1 has sent a prompt, S1 has
\* submitted "A" and S2 has submitted "B".
RoundOpen ==
    /\ ClassRunning
    /\ promptUses = <<[session |-> "ABC123"]>>
    /\ thoughts = <<[pu |-> 1, author |-> "S1", content |-> "A", live |-> TRUE],
                    [pu |-> 1, author |-> "S2", content |-> "B", live |-> TRUE]>>
    /\ inbox = [c \in Conns |->
                  CASE c = 1 -> Heard([NoInbox EXCEPT !.prompt = 1], {2, 3}, 2)
                    [] c \in {2, 3} -> [NoInbox EXCEPT !.prompt = 1]
                    [] OTHER -> NoInbox]

RoundInit == RoundOpen /\ done = IdleTask

\* The server from its start, one handler at a time: sockets open (claiming
\* any role) and close, classes start and end, students join.
Next ==
    \/ \E u \in Class, role \in Roles : Connect(u, role, MaxConns - 1)
    \/ \E c \in Conns :
        \/ Disconnect(SeqTasks, c)
        \/ StartClassReceive(SeqTasks, c)
        \/ JoinRoomReceive(SeqTasks, c)
        \/ EndSessionReceive(SeqTasks, c)
    \/ \E i \in TaskIds :
        \/ DisconnectHandler(i)
        \/ StartClass(i)
        \/ JoinRoom(i)
        \/ EndSession(i)
    \/ \E j \in TaskIds : broadcastParticipantList(j)

Spec == Init /\ [][Next]_vars

\* the way from the server's start to a round in progress
NextSetup ==
    \/ \E u \in Class : Connect(u, StoredRole(u), MaxConns - 1)
    \/ \E c \in Conns :
        \/ StartClassReceive(SeqTasks, c)
        \/ JoinRoomReceive(SeqTasks, c)
        \/ SendPromptReceive(SeqTasks, c, RoundPrompts)
        \/ SubmitThoughtReceive(SeqTasks, c, RoundThoughts)
    \/ \E i \in TaskIds :
        \/ StartClass(i)
        \/ JoinRoom(i)
        \/ SendPrompt(i)
        \/ SubmitThought(i)
    \/ \E j \in TaskIds : broadcastParticipantList(j)

SpecSetup == Init /\ [][NextSetup]_vars

\* one round of a class in progress, one handler at a time
NextRound ==
    \/ \E c \in Conns :
        \/ JoinRoomReceive(SeqTasks, c)
        \/ SendPromptReceive(SeqTasks, c, RoundPrompts)
        \/ SubmitThoughtReceive(SeqTasks, c, RoundThoughts)
        \/ DeleteThoughtReceive(SeqTasks, c)
        \/ TriggerSwapReceive(SeqTasks, c)
    \/ \E i \in TaskIds :
        \/ JoinRoom(i)
        \/ SendPrompt(i)
        \/ SubmitThought(i)
        \/ DeleteThought(i)
        \/ TriggerSwap(i)
    \/ \E j \in TaskIds : broadcastParticipantList(j)

SpecRound == ClassInit /\ [][NextRound]_vars

\* a round in progress: swaps while every student is connected, then students
\* leaving and coming back on a new socket; one handler at a time
Closed == {c \in Conns : sock[c].st = "closed"}

NextRejoin ==
    \/ \E u \in {"S1", "S2"} : Connect(u, StoredRole(u), MaxConns) /\ Closed # {}
    \/ \E c \in Conns :
        \/ Disconnect(SeqTasks, c) /\ sock[c].role = "STUDENT" /\ Quiet
        \/ JoinRoomReceive(SeqTasks, c)
        \/ TriggerSwapReceive(SeqTasks, c) /\ Closed = {}
    \/ \E i \in TaskIds :
        \/ JoinRoom(i)
        \/ TriggerSwap(i)
    \/ \E j \in TaskIds : broadcastParticipantList(j)

SpecRejoin == RoundInit /\ [][NextRejoin]_vars

\* a round in progress is ended by the teacher; clients go on sending the
\* commands that name the join code, one handler at a time
Ended == \A code \in Codes : ~ActiveSession(code)

NextEnded ==
    \/ \E c \in Conns :
        \/ EndSessionReceive(SeqTasks, c) /\ ~Ended
        \/ JoinRoomReceive(SeqTasks, c) /\ Ended
        \/ RejoinReceive(SeqTasks, c) /\ Ended
        \/ SendPromptReceive(SeqTasks, c, MaxPrompts) /\ Ended
        \/ SubmitThoughtReceive(SeqTasks, c, MaxThoughts) /\ Ended
        \/ TriggerSwapReceive(SeqTasks, c) /\ Ended
        \/ RequestNewThoughtReceive(SeqTasks, c) /\ Ended
        \/ ReassignReceive(SeqTasks, c) /\ Ended
        \/ UpdateSettingsReceive(SeqTasks, c) /\ Ended
    \/ \E i \in TaskIds :
        \/ EndSession(i)
        \/ JoinRoom(i)
        \/ Rejoin(i)
        \/ SendPrompt(i)
        \/ SubmitThought(i)
        \/ TriggerSwap(i)
        \/ RequestNewThought(i)
        \/ Reassign(i)
        \/ UpdateSettings(i)
    \/ \E j \in TaskIds : broadcastParticipantList(j)

SpecEnded == RoundInit /\ [][NextEnded]_vars

\* a round in progress: re-swap requests and swaps, two handlers at a time
NextQuota ==
    \/ \E c \in Conns :
        \/ RequestNewThoughtReceive(RaceTasks, c)
        \/ TriggerSwapReceive(RaceTasks, c)
    \/ \E i \in TaskIds :
        \/ RequestNewThought(i)
        \/ TriggerSwap(i)

SpecQuota == RoundInit /\ [][NextQuota]_vars

\* a round in progress: swaps and new prompts, two handlers at a time
NextStale ==
    \/ \E c \in Conns :
        \/ SendPromptReceive(RaceTasks, c, MaxPrompts)
        \/ TriggerSwapReceive(RaceTasks, c)
    \/ \E i \in TaskIds :
        \/ SendPrompt(i)
        \/ TriggerSwap(i)
    \/ \E j \in TaskIds : broadcastParticipantList(j)

SpecStale == RoundInit /\ [][NextStale]_vars

\* a round in progress: joins and the end of the session, two handlers at a time
NextEnd ==
    \/ \E c \in Conns :
        \/ JoinRoomReceive(RaceTasks, c)
        \/ EndSessionReceive(RaceTasks, c)
    \/ \E i \in TaskIds :
        \/ JoinRoom(i)
        \/ EndSession(i)
    \/ \E j \in TaskIds : broadcastParticipantList(j)

SpecEnd == RoundInit /\ [][NextEnd]_vars

\* the server from its start with the teacher alone: sockets open and close
\* and classes start, two handlers at a time
NextLeave ==
    \/ Connect("T1", "TEACHER", 2)
    \/ \E c \in Conns :
        \/ Disconnect(RaceTasks, c)
        \/ StartClassReceive(RaceTasks, c)
    \/ \E i \in TaskIds :
        \/ DisconnectHandler(i)
        \/ StartClass(i)
    \/ \E j \in TaskIds : broadcastParticipantList(j)

SpecLeave == Init /\ [][NextLeave]_vars

\* SpecSetup reaches ClassRunning and RoundOpen, the states the specifications
\* above start from: TLC finds each of these violated under SpecSetup.
ClassRunningNotReached == ~(ClassRunning /\ promptUses = <<>>)
RoundOpenNotReached == ~RoundOpen

\* -------------------------------------------------------------- properties
Got(t, ev) == \E k \in DOMAIN t.out : t.out[k][1] = ev
Completed(op) == done.op = op /\ done.pc = "done"

\* the live thoughts of the latest PromptUse of a room, and their authors
LiveThoughts(code) ==
    {i \in DOMAIN thoughts : thoughts[i].live /\ thoughts[i].pu = LatestPromptUse(code)}
LiveAuthors(code) == {thoughts[i].author : i \in LiveThoughts(code)}

\* C1: when TRIGGER_SWAP has stored a Distribution for the current PromptUse
\* and its live thoughts have at least two distinct authors, no recipient holds
\* a thought of its own user; with S1 having submitted "A" and S2 "B", S1 is
\* sent "B" and S2 is sent "A".
C1_NoOwnThought ==
    \A code \in Codes :
        (/\ Completed("TRIGGER_SWAP") /\ done.code = code
         /\ Got(done, "SWAP_COMPLETED")
         /\ Cardinality(LiveAuthors(code)) >= 2)
        => LET ent == roomAssignments[code].ent
           IN  /\ \A r \in DOMAIN ent :
                    ent[r].promptUseId = LatestPromptUse(code)
                        => ent[r].authorId # sock[r].user
               /\ (/\ {thoughts[i] : i \in LiveThoughts(code)} =
                        {[pu |-> done.pu, author |-> "S1", content |-> "A",
                          live |-> TRUE],
                         [pu |-> done.pu, author |-> "S2", content |-> "B",
                          live |-> TRUE]}
                   /\ {sock[r].user : r \in StudentSockets(done.socks)}
                        = {"S1", "S2"})
                  => \A r \in StudentSockets(done.socks) :
                        inbox[r].swap = IF sock[r].user = "S1" THEN "B" ELSE "A"

\* C2: for every session and student, the SwapRequest rows of (student,
\* session) never exceed the session's maxSwapRequests.
C2_QuotaNeverExceeded ==
    \A u \in Users, code \in Codes :
        sessions[code].exists
            => swapRequests[<<u, code>>] <= sessions[code].maxSwapRequests

\* C3: for every (promptUseId, authorId) there is at most one non-deleted
\* Thought.
C3_OneThoughtPerAuthor ==
    \A i, j \in DOMAIN thoughts :
        (/\ thoughts[i].live /\ thoughts[j].live
         /\ thoughts[i].pu = thoughts[j].pu
         /\ thoughts[i].author = thoughts[j].author)
        => i = j

\* C4: once no handler is in flight, every entry of a room's Distribution
\* holds a thought of the room's latest PromptUse.
C4_DistributionIsCurrent ==
    \A code \in Codes :
        (Quiet /\ roomAssignments[code].has)
        => \A r \in DOMAIN roomAssignments[code].ent :
              roomAssignments[code].ent[r].promptUseId = LatestPromptUse(code)

\* C5: a step of a teacher-only command changes the store, the room groups,
\* the Distribution or what a socket has been sent only when the stored User
\* of the command's connection has role TEACHER.
TeacherOnly ==
    {"TEACHER_START_CLASS", "TEACHER_SEND_PROMPT", "TRIGGER_SWAP",
     "TEACHER_DELETE_THOUGHT", "END_SESSION", "UPDATE_SESSION_SETTINGS"}
Effects == <<store, rooms, roomAssignments, inbox>>
C5_StoredRoleDecides ==
    [][\A i \in TaskIds :
          (/\ tasks[i].op \in TeacherOnly
           /\ tasks'[i] # tasks[i]
           /\ Effects' # Effects)
          => StoredRole(sock[tasks[i].c].user) = "TEACHER"]_vars

\* C6: a student who left (socket c0 closed) and joins again as the same user
\* on a new socket is shown the prompt c0 was shown, is restored as having
\* submitted when the user has submitted, and, when c0 had been sent a swap,
\* is sent RECEIVE_SWAP with the content c0 last received.
C6_RejoinRestores ==
    \A c0 \in Closed :
        (/\ Completed("JOIN_ROOM") /\ Got(done, "JOIN_SUCCESS")
         /\ sock[done.c].user = sock[c0].user
         /\ inbox[c0].prompt = LatestPromptUse(done.code))
        => /\ inbox[done.c].prompt = inbox[c0].prompt
           /\ sock[c0].user \in LiveAuthors(done.code) => ~Got(done, "NEW_PROMPT")
           /\ inbox[c0].swap # None
                => /\ Got(done, "RECEIVE_SWAP")
                   /\ inbox[done.c].swap = inbox[c0].swap

\* C7: a successful JOIN_ROOM into a room with a current PromptUse sends the
\* joining socket exactly one restoration: RECEIVE_SWAP with the content of
\* the socket's Distribution entry and then RESTORE_STATE DISCUSSING when the
\* entry exists; else RESTORE_STATE SUBMITTED when the user has a thought for
\* the PromptUse; else NEW_PROMPT.
Restoration(t) == SubSeq(t.out, 2, Len(t.out))
C7_JoinRestoration ==
    (/\ Completed("JOIN_ROOM") /\ Got(done, "JOIN_SUCCESS") /\ done.pu # 0)
    => LET ra == roomAssignments[done.code]
       IN  Restoration(done) =
              IF ra.has /\ done.c \in DOMAIN ra.ent
              THEN << <<"RECEIVE_SWAP", ra.ent[done.c].thoughtContent>>,
                      <<"RESTORE_STATE", "DISCUSSING">> >>
              ELSE IF sock[done.c].user \in LiveAuthors(done.code)
              THEN << <<"RESTORE_STATE", "SUBMITTED">> >>
              ELSE << <<"NEW_PROMPT", "">> >>

\* C8: a command that names a join code whose session END_SESSION has
\* completed (a SUBMIT_THOUGHT naming a PromptUse of that session) is answered
\* with ERROR.
Commands ==
    {"JOIN_ROOM", "TEACHER_REJOIN", "TEACHER_SEND_PROMPT", "SUBMIT_THOUGHT",
     "TRIGGER_SWAP", "STUDENT_REQUEST_NEW_THOUGHT",
     "TEACHER_REASSIGN_DISTRIBUTION", "UPDATE_SESSION_SETTINGS"}
C8_ErrorAfterEnd ==
    (/\ done.op \in Commands
     /\ done.pc \in {"done", "threw"}
     /\ done.op = "SUBMIT_THOUGHT" => done.n \in DOMAIN promptUses
     /\ sessions[done.code].status = "COMPLETED")
    => Got(done, "ERROR")

\* C9: when END_SESSION has completed, the session is COMPLETED, every member
\* of the room group has been sent SESSION_ENDED, the room has no Distribution
\* and the room group has no member.
C9_EndSessionClearsRoom ==
    Completed("END_SESSION")
    => /\ sessions[done.code].status = "COMPLETED"
       /\ \A c \in done.socks \cup FetchSockets(done.code) : inbox[c].ended
       /\ ~roomAssignments[done.code].has
       /\ FetchSockets(done.code) = {}

\* C10: once a teacher has no open socket left and every handler has finished,
\* no session of that teacher is ACTIVE.
C10_TeacherGoneSessionsCompleted ==
    \A u \in Users :
        (/\ Quiet
         /\ \E c \in Closed : sock[c].user = u /\ sock[c].role = "TEACHER"
         /\ \A c \in Conns : Open(c) => sock[c].user # u)
        => \A code \in Codes :
              courses[code].teacherId = u => ~ActiveSession(code)

\* a round in progress: swaps, joins, and sockets closing (the teacher's
\* included); one handler at a time
NextGone ==
    \/ \E c \in Conns :
        \/ Disconnect(SeqTasks, c) /\ Quiet
        \/ JoinRoomReceive(SeqTasks, c)
        \/ TriggerSwapReceive(SeqTasks, c)
    \/ \E i \in TaskIds :
        \/ DisconnectHandler(i)
        \/ JoinRoom(i)
        \/ TriggerSwap(i)
    \/ \E j \in TaskIds : broadcastParticipantList(j)

SpecGone == RoundInit /\ [][NextGone]_vars

\* C11: when the disconnect handler of a teacher's socket has completed, a
\* session of that teacher that is COMPLETED has no Distribution and its room
\* group has no member.
C11_AutoEndDestroysRoom ==
    \A code \in Codes :
        (/\ Completed("disconnect")
         /\ courses[code].teacherId = sock[done.c].user
         /\ sessions[code].status = "COMPLETED")
        => /\ ~roomAssignments[code].has
           /\ FetchSockets(code) = {}

\* a round in progress: further prompts, submissions (also from sockets that
\* never joined), and the end of the session; one handler at a time
NextSubmit ==
    \/ \E u \in {"S1", "S2"} : Connect(u, StoredRole(u), MaxConns)
    \/ \E c \in Conns :
        \/ SendPromptReceive(SeqTasks, c, MaxPrompts)
        \/ SubmitThoughtReceive(SeqTasks, c, MaxThoughts)
        \/ EndSessionReceive(SeqTasks, c)
    \/ \E i \in TaskIds :
        \/ SendPrompt(i)
        \/ SubmitThought(i)
        \/ EndSession(i)
    \/ \E j \in TaskIds : broadcastParticipantList(j)

SpecSubmit == RoundInit /\ [][NextSubmit]_vars

\* C12: a SUBMIT_THOUGHT whose promptUseId is not the latest PromptUse of the
\* room it names leaves the thought store unchanged and emits no ERROR.
C12_StaleSubmitDiscarded ==
    [][\A i \in TaskIds :
          (/\ tasks[i].op = "SUBMIT_THOUGHT"
           /\ tasks'[i] # tasks[i]
           /\ tasks[i].n # LatestPromptUse(tasks[i].code))
          => /\ thoughts' = thoughts
             /\ ~Got(done', "ERROR")]_vars

\* C13: a SUBMIT_THOUGHT from a socket that is not a member of the room group
\* it names inserts no Thought.
C13_OutsiderSubmitRejected ==
    [][\A i \in TaskIds :
          (/\ tasks[i].op = "SUBMIT_THOUGHT"
           /\ tasks'[i] # tasks[i]
           /\ tasks[i].c \notin rooms[tasks[i].code])
          => thoughts' = thoughts]_vars

\* A prompt just sent: in the class above T1 has sent a prompt and nobody has
\* submitted yet.
PromptOpen ==
    /\ ClassRunning
    /\ promptUses = <<[session |-> "ABC123"]>>
    /\ thoughts = <<>>
    /\ inbox = [c \in Conns |->
                  CASE c = 1 -> Heard([NoInbox EXCEPT !.prompt = 1], {2, 3}, 0)
                    [] c \in {2, 3} -> [NoInbox EXCEPT !.prompt = 1]
                    [] OTHER -> NoInbox]

PromptInit == PromptOpen /\ done = IdleTask
PromptOpenNotReached == ~PromptOpen

\* a prompt just sent: the class submits; then students leave, and connect
\* and join on new sockets; the teacher swaps at any time; one handler at a
\* time
NextSwap ==
    \/ \E u \in {"S1", "S2"} : Connect(u, StoredRole(u), MaxConns) /\ Quiet
    \/ \E c \in Conns :
        \/ Disconnect(SeqTasks, c) /\ sock[c].role = "STUDENT" /\ Quiet
        \/ JoinRoomReceive(SeqTasks, c) /\ \A code \in Codes : c \notin rooms[code]
        \/ SubmitThoughtReceive(SeqTasks, c, RoundThoughts)
              /\ \A d \in Conns : Open(d) <=> d \in {1, 2, 3}
        \/ TriggerSwapReceive(SeqTasks, c)
    \/ \E i \in TaskIds :
        \/ JoinRoom(i)
        \/ SubmitThought(i)
        \/ TriggerSwap(i)
    \/ \E j \in TaskIds : broadcastParticipantList(j)

SpecSwap == PromptInit /\ [][NextSwap]_vars

\* the TRIGGER_SWAP that has just completed went through its swap
Swapped == Completed("TRIGGER_SWAP") /\ Len(done.ths) > 0
\* the student sockets it fetched, and the entry it wrote for each
Recipients == StudentSockets(done.socks)
Given(s) == roomAssignments[done.code].ent[s]

\* C14: a TRIGGER_SWAP that read a non-empty list of thoughts and fetched R
\* student sockets leaves one Distribution entry for each of them, made from
\* one of the thoughts read; calls emit RECEIVE_SWAP once for each of them,
\* with the entry's content; and reports SWAP_COMPLETED with count R.  With
\* R = 0 nothing is sent and the count is 0; with a single thought every
\* student is given that thought.
C14_SwapGivesEachStudentOne ==
    Swapped =>
        /\ \A s \in Recipients :
              /\ roomAssignments[done.code].has
              /\ s \in DOMAIN roomAssignments[done.code].ent
              /\ Given(s).thoughtId \in Range(done.ths)
              /\ Given(s).thoughtContent = thoughts[Given(s).thoughtId].content
              /\ Open(s) => inbox[s].swap = Given(s).thoughtContent
        /\ Len(done.sent) = Cardinality(Recipients)
        /\ Range(done.sent) = Recipients
        /\ done.x = Cardinality(Recipients)
        /\ Open(done.c) => Got(done, "SWAP_COMPLETED")
        /\ Len(done.ths) = 1 =>
              \A s \in Recipients : Given(s).thoughtId = done.ths[1]

C14_MoreThoughtsThanStudents ==
    /\ Swapped
    /\ Len(done.ths) = 2
    /\ Cardinality(Recipients) = 1
    /\ Got(done, "SWAP_COMPLETED")

\* C15: when TRIGGER_SWAP read T >= 1 thoughts and fetched R > T student
\* sockets, the swap has R entries, every thought read is given to at least
\* one student and some thought is given to two or more.
C15_Oversubscription ==
    (Swapped /\ Cardinality(Recipients) > Len(done.ths)) =>
        /\ done.x = Cardinality(Recipients)
        /\ \A s \in Recipients : s \in DOMAIN roomAssignments[done.code].ent
        /\ \A i \in Range(done.ths) : \E s \in Recipients : Given(s).thoughtId = i
        /\ \E s1, s2 \in Recipients :
              s1 # s2 /\ Given(s1).thoughtId = Given(s2).thoughtId

C15_TwoThoughtsThreeStudents ==
    /\ Swapped
    /\ Len(done.ths) = 2
    /\ Cardinality(Recipients) = 3

\* C16: a TRIGGER_SWAP that finds no PromptUse, or reads zero thoughts for the
\* latest one, emits ERROR to its socket and no SWAP_COMPLETED, calls emit
\* RECEIVE_SWAP on no socket, and none of its steps changes the Distribution
\* or what any socket has been sent.
C16_EmptySwapIsError ==
    [][\A i \in TaskIds :
          (/\ tasks[i].op = "TRIGGER_SWAP"
           /\ tasks'[i] # tasks[i]
           /\ \/ tasks[i].pc \in {"promptUse.findFirst", "thought.findMany",
                                  "fetchSockets"}
              \/ tasks[i].pc = "swap" /\ tasks[i].ths = <<>>)
          => /\ roomAssignments' = roomAssignments
             /\ inbox' = inbox
             /\ (done'.op = "TRIGGER_SWAP" /\ done'.pc = "done")
                  => /\ Open(done'.c) => Got(done', "ERROR")
                     /\ ~Got(done', "SWAP_COMPLETED")
                     /\ done'.sent = <<>>]_vars

C16_ErrorWithDistributionKept ==
    /\ Completed("TRIGGER_SWAP")
    /\ done.pu # 0
    /\ done.ths = <<>>
    /\ Got(done, "ERROR")
    /\ DOMAIN roomAssignments[done.code].ent # {}

\* a round in progress: further prompts and submissions, swaps, re-swap
\* requests and quota settings; one handler at a time
NextReswap ==
    \/ \E c \in Conns :
        \/ SendPromptReceive(SeqTasks, c, MaxPrompts)
        \/ SubmitThoughtReceive(SeqTasks, c, MaxThoughts)
        \/ TriggerSwapReceive(SeqTasks, c)
        \/ RequestNewThoughtReceive(SeqTasks, c)
        \/ UpdateSettingsReceive(SeqTasks, c)
    \/ \E i \in TaskIds :
        \/ SendPrompt(i)
        \/ SubmitThought(i)
        \/ TriggerSwap(i)
        \/ RequestNewThought(i)
        \/ UpdateSettings(i)
    \/ \E j \in TaskIds : broadcastParticipantList(j)

SpecReswap == RoundInit /\ [][NextReswap]_vars

Requester(t) == sock[t.c].user
LimitError == <<"ERROR", "Limit reached.">>

\* C17: a STUDENT_REQUEST_NEW_THOUGHT that finds the student's SwapRequest
\* count at or above the session's maxSwapRequests ends there: it emits ERROR
\* "Limit reached..." and nothing else, and leaves the SwapRequest rows, the
\* Distribution and what every socket has been sent unchanged.
C17_LimitReachedIsError ==
    [][\A i \in TaskIds :
          (/\ tasks[i].op = "STUDENT_REQUEST_NEW_THOUGHT"
           /\ tasks'[i] # tasks[i]
           /\ tasks[i].pc = "swapRequest.count"
           /\ swapRequests[<<Requester(tasks[i]), tasks[i].code>>] >= tasks[i].x)
          => /\ done'.op = "STUDENT_REQUEST_NEW_THOUGHT" /\ done'.pc = "done"
             /\ Open(done'.c) => done'.out = <<LimitError>>
             /\ ~Got(done', "RECEIVE_SWAP")
             /\ swapRequests' = swapRequests
             /\ roomAssignments' = roomAssignments
             /\ inbox' = inbox]_vars

C17_SecondRequestRefused ==
    /\ Completed("STUDENT_REQUEST_NEW_THOUGHT")
    /\ done.out = <<LimitError>>
    /\ sessions[done.code].maxSwapRequests = 1
    /\ swapRequests[<<Requester(done), done.code>>] = 1

\* C18: when UPDATE_SESSION_SETTINGS {maxSwapRequests: n} has completed for an
\* ACTIVE session, the session's maxSwapRequests is n.
C18_QuotaIsWhatWasSent ==
    (Completed("UPDATE_SESSION_SETTINGS") /\ ActiveSession(done.code))
    => sessions[done.code].maxSwapRequests = done.n

\* the thoughts a request may be answered with: live, of PromptUse pu, by
\* another author than u, with another content than s
Eligible(pu, u, s) ==
    {j \in DOMAIN thoughts :
        /\ thoughts[j].live /\ thoughts[j].pu = pu
        /\ thoughts[j].author # u /\ thoughts[j].content # s}

\* C19: the thought sent by a successful STUDENT_REQUEST_NEW_THOUGHT belongs to
\* the PromptUse the handler found as the latest, has another author than the
\* requester and another content than currentThoughtContent; a request that
\* finds no such thought ends with ERROR and adds no SwapRequest row.
C19_ReswapIsEligible ==
    [][/\ (/\ done'.op = "STUDENT_REQUEST_NEW_THOUGHT" /\ done'.pc = "done"
           /\ Got(done', "RECEIVE_SWAP"))
          => /\ done'.n \in DOMAIN thoughts
             /\ thoughts[done'.n].pu = done'.pu
             /\ thoughts[done'.n].author # Requester(done')
             /\ thoughts[done'.n].content # done'.s
             /\ done'.out = << <<"RECEIVE_SWAP", thoughts[done'.n].content>> >>
       /\ \A i \in TaskIds :
             (/\ tasks[i].op = "STUDENT_REQUEST_NEW_THOUGHT"
              /\ tasks'[i] # tasks[i]
              /\ tasks[i].pc = "thought.findMany"
              /\ Eligible(tasks[i].pu, Requester(tasks[i]), tasks[i].s) = {})
             => /\ done'.op = "STUDENT_REQUEST_NEW_THOUGHT" /\ done'.pc = "done"
                /\ Open(done'.c) => Got(done', "ERROR")
                /\ swapRequests' = swapRequests]_vars

C19_ReswapInSecondRound ==
    /\ Completed("STUDENT_REQUEST_NEW_THOUGHT")
    /\ Got(done, "RECEIVE_SWAP")
    /\ done.pu = 2
    /\ \E j \in DOMAIN thoughts : thoughts[j].pu = 1 /\ thoughts[j].content # done.s
                                  /\ thoughts[j].author # Requester(done)

\* a round in progress: swaps while every student is connected, then students
\* leaving, coming back on a new socket and asking for another thought; one
\* handler at a time
NextLate ==
    \/ NextRejoin
    \/ \E c \in Conns : RequestNewThoughtReceive(SeqTasks, c)
    \/ \E i \in TaskIds : RequestNewThought(i)

SpecLate == RoundInit /\ [][NextLate]_vars

\* C20: when a STUDENT_REQUEST_NEW_THOUGHT from a socket that is a member of
\* the room has succeeded after the room's swap was performed, the requesting
\* socket's Distribution entry holds the
\* thought sent to it in RECEIVE_SWAP, and the step that finished the request
\* added one SwapRequest row in all and sent the teachers of the room a
\* DISTRIBUTION_UPDATE.
C20_ReswapUpdatesEntry ==
    (/\ Completed("STUDENT_REQUEST_NEW_THOUGHT")
     /\ Got(done, "RECEIVE_SWAP")
     /\ done.c \in rooms[done.code]
     /\ DOMAIN roomAssignments[done.code].ent # {})
    => /\ done.c \in DOMAIN roomAssignments[done.code].ent
       /\ roomAssignments[done.code].ent[done.c].thoughtId = done.n
       /\ TeacherSockets(FetchSockets(done.code)) \subseteq done.socks

\* a round in progress: a further thought, deletions, swaps and the teacher's
\* reassignments, one handler at a time; students leave
NextReassign ==
    \/ \E c \in Conns :
        \/ Disconnect(SeqTasks, c) /\ sock[c].role = "STUDENT" /\ Quiet
        \/ SubmitThoughtReceive(SeqTasks, c, MaxThoughts)
        \/ DeleteThoughtReceive(SeqTasks, c)
        \/ TriggerSwapReceive(SeqTasks, c)
        \/ ReassignReceive(SeqTasks, c)
    \/ \E i \in TaskIds :
        \/ SubmitThought(i)
        \/ DeleteThought(i)
        \/ TriggerSwap(i)
        \/ Reassign(i)
    \/ \E j \in TaskIds : broadcastParticipantList(j)

SpecReassign == RoundInit /\ [][NextReassign]_vars

NextVisitor ==
    \/ Connect("T2", StoredRole("T2"), MaxConns)
    \/ \E c \in Conns :
        \/ DeleteThoughtReceive(SeqTasks, c)
        \/ SendPromptReceive(SeqTasks, c, MaxPrompts)
        \/ TriggerSwapReceive(SeqTasks, c)
        \/ UpdateSettingsReceive(SeqTasks, c)
        \/ ResetStateReceive(SeqTasks, c)
        \/ EndSessionReceive(SeqTasks, c)
    \/ \E i \in TaskIds :
        \/ DeleteThought(i)
        \/ SendPrompt(i)
        \/ TriggerSwap(i)
        \/ UpdateSettings(i)
        \/ ResetState(i)
        \/ EndSession(i)
    \/ \E j \in TaskIds : broadcastParticipantList(j)

SpecVisitor == RoundInit /\ [][NextVisitor]_vars

\* the join code of the session a thought belongs to
ThoughtRoom(n) == promptUses[thoughts[n].pu].session
Owner(code) == courses[code].teacherId

\* C22: a step that deletes a Thought is a step of a TEACHER_DELETE_THOUGHT
\* handler whose user is the teacher of the course the thought's session
\* belongs to and whose joinCode is that course's.
C22_OnlyOwnerDeletes ==
    [][\A n \in DOMAIN thoughts :
          (thoughts[n].live /\ ~thoughts'[n].live)
          => \E i \in TaskIds :
                /\ tasks[i].op = "TEACHER_DELETE_THOUGHT"
                /\ tasks[i].n = n
                /\ tasks[i].code = ThoughtRoom(n)
                /\ sock[tasks[i].c].user = Owner(ThoughtRoom(n))]_vars

\* C23: no step of a TEACHER_DELETE_THOUGHT handler changes a Distribution;
\* its delete removes the thought it names and no other; the socket it picks
\* from the room is one of the author's user when there is one and none
\* otherwise; and after the delete it sends THOUGHT_DELETED to that socket and
\* to no other.
C23_DeleteKeepsDistribution ==
    [][\A i \in TaskIds :
          (/\ tasks[i].op = "TEACHER_DELETE_THOUGHT"
           /\ tasks'[i] # tasks[i])
          => LET t == tasks[i]
             IN  /\ roomAssignments' = roomAssignments
                 /\ thoughts' # thoughts
                      => /\ t.pc = "thought.delete"
                         /\ thoughts' = [thoughts EXCEPT ![t.n].live = FALSE]
                 /\ t.pc = "fetchSockets"
                      => LET inRoom == {c \in FetchSockets(t.code) :
                                          sock[c].user = thoughts[t.n].author}
                         IN  IF inRoom = {} THEN tasks'[i].x = 0
                             ELSE tasks'[i].x \in inRoom
                 /\ t.pc = "notify"
                      => /\ ~thoughts[t.n].live
                         /\ done'.sent = SetToSeq({c \in {t.x} \cap Conns : Open(c)})
                 /\ t.pc # "notify" => done'.sent = <<>>]_vars

\* a thought that a recipient holds has been deleted: the entry is still
\* there and the author's socket has been sent THOUGHT_DELETED
C23_DeletedAfterSwap ==
    /\ Completed("TEACHER_DELETE_THOUGHT")
    /\ done.sent # <<>>
    /\ sock[done.sent[1]].user = thoughts[done.n].author
    /\ ~thoughts[done.n].live
    /\ \E r \in DOMAIN roomAssignments[done.code].ent :
          roomAssignments[done.code].ent[r].thoughtId = done.n

\* a round in progress: submissions and new prompts, two handlers or
\* broadcasts at a time; deletions, resets and joins start when nothing else
\* is in flight
NextCount ==
    \/ \E c \in Conns :
        \/ JoinRoomReceive(RaceTasks, c) /\ Quiet
        \/ SendPromptReceive(RaceTasks, c, MaxPrompts)
        \/ SubmitThoughtReceive(RaceTasks, c, MaxThoughts)
        \/ DeleteThoughtReceive(RaceTasks, c) /\ Quiet
        \/ ResetStateReceive(RaceTasks, c) /\ Quiet
    \/ \E i \in TaskIds :
        \/ JoinRoom(i)
        \/ SendPrompt(i)
        \/ SubmitThought(i)
        \/ DeleteThought(i)
        \/ ResetState(i)
    \/ \E j \in TaskIds : broadcastParticipantList(j)

SpecCount == RoundInit /\ [][NextCount]_vars

\* C24: a PARTICIPANTS_UPDATE just sent carries the number of live thoughts
\* of the room's latest PromptUse; and once no handler and no broadcast is in
\* flight, the last PARTICIPANTS_UPDATE received by each teacher socket of the
\* room carries that number.
C24_CountIsCurrent ==
    /\ Completed("broadcastParticipantList")
         => done.x = Cardinality(LiveThoughts(done.code))
    /\ \A code \in Codes :
          Quiet => \A c \in TeacherSockets(FetchSockets(code)) :
                      inbox[c].count # -1
                          => inbox[c].count = Cardinality(LiveThoughts(code))

\* C25: once no handler and no broadcast is in flight, the participant list
\* of the last PARTICIPANTS_UPDATE received by each teacher socket of a room
\* is the set of student sockets in the room group.
C25_TeachersKnowParticipants ==
    \A code \in Codes :
        Quiet => \A c \in TeacherSockets(FetchSockets(code)) :
                    inbox[c].parts = StudentSockets(FetchSockets(code))

\* C26: a step of a TEACHER_SEND_PROMPT, TRIGGER_SWAP, END_SESSION,
\* UPDATE_SESSION_SETTINGS or TEACHER_RESET_STATE handler whose user is not the
\* teacher of the Course of its joinCode creates no PromptUse, changes no
\* Session and no Distribution, and sends nothing to a socket.
OwnerOnly ==
    {"TEACHER_SEND_PROMPT", "TRIGGER_SWAP", "END_SESSION",
     "UPDATE_SESSION_SETTINGS", "TEACHER_RESET_STATE"}
C26_OnlyOwnerCommands ==
    [][\A i \in TaskIds :
          (/\ tasks[i].op \in OwnerOnly
           /\ tasks'[i] # tasks[i]
           /\ sock[tasks[i].c].user # Owner(tasks[i].code))
          => /\ promptUses' = promptUses
             /\ sessions' = sessions
             /\ roomAssignments' = roomAssignments
             /\ inbox' = inbox]_vars

\* a round in progress: the teacher swaps and sends prompts of every payload,
\* one handler at a time
NextPrompt ==
    \/ \E c \in Conns :
        \/ SendAnyPromptReceive(SeqTasks, c, MaxPrompts)
        \/ TriggerSwapReceive(SeqTasks, c)
    \/ \E i \in TaskIds :
        \/ SendPrompt(i)
        \/ TriggerSwap(i)
    \/ \E j \in TaskIds : broadcastParticipantList(j)

SpecPrompt == RoundInit /\ [][NextPrompt]_vars

\* content is non-empty and a multiple-choice prompt has 2 to 6 non-empty options
ValidPrompt(content, type, options) ==
    /\ content # ""
    /\ type = "MC" => (options >= 2 /\ options <= 6)

\* C27: a step of a TEACHER_SEND_PROMPT handler whose content is empty, or
\* whose type is MC with fewer than 2 or more than 6 non-empty options, appends
\* no PromptUse, leaves the Distribution as it is and sends no NEW_PROMPT; and
\* the handler ends with ERROR sent to its socket.
C27_BadPromptRejected ==
    [][\A i \in TaskIds :
          (/\ tasks[i].op = "TEACHER_SEND_PROMPT"
           /\ tasks'[i] # tasks[i]
           /\ ~ValidPrompt(tasks[i].s, tasks[i].type, tasks[i].n))
          => /\ promptUses' = promptUses
             /\ roomAssignments' = roomAssignments
             /\ inbox' = inbox
             /\ tasks'[i] = IdleTask => Got(done', "ERROR")]_vars

\* a class in progress: the round goes on, the session may be ended, and a
\* teacher (the owner on a second socket, or another teacher) connects and
\* sends TEACHER_REJOIN; one handler at a time
NextBack ==
    \/ \E u \in {"T1", "T2"} : Connect(u, StoredRole(u), MaxConns) /\ Quiet
    \/ \E c \in Conns :
        \/ RejoinReceive(SeqTasks, c)
        \/ SendPromptReceive(SeqTasks, c, RoundPrompts)
        \/ SubmitThoughtReceive(SeqTasks, c, RoundThoughts) /\ sock[c].role = "STUDENT"
        \/ TriggerSwapReceive(SeqTasks, c) /\ c = 1
        \/ EndSessionReceive(SeqTasks, c) /\ c = 1
    \/ \E i \in TaskIds :
        \/ Rejoin(i)
        \/ SendPrompt(i)
        \/ SubmitThought(i)
        \/ TriggerSwap(i)
        \/ EndSession(i)
    \/ \E j \in TaskIds : broadcastParticipantList(j)

SpecBack == ClassInit /\ [][NextBack]_vars

\* C28: a TEACHER_REJOIN handler adds its socket to the room group only when
\* its user is the teacher of the Course and the session is ACTIVE, and
\* otherwise ends with ERROR; when it ends without ERROR it has sent its
\* socket CLASS_STARTED first and THOUGHTS_UPDATE, and has called the
\* broadcast that sends PARTICIPANTS_UPDATE and DISTRIBUTION_UPDATE to the
\* teacher sockets of the room, its own among them.
C28_RejoinSnapshots ==
    [][\A i \in TaskIds :
          (/\ tasks[i].op = "TEACHER_REJOIN"
           /\ tasks'[i] # tasks[i])
          => LET t == tasks[i]
                 mayJoin == /\ sock[t.c].user = Owner(t.code)
                            /\ ActiveSession(t.code)
             IN  /\ rooms' # rooms => mayJoin
                 /\ casts' # casts
                      => \E j \in TaskIds :
                            /\ casts'[j] # casts[j]
                            /\ casts'[j].code = t.code
                            /\ Open(t.c) => t.c \in casts'[j].socks
                 /\ tasks'[i] = IdleTask
                      => IF Got(done', "ERROR")
                         THEN ~(t.pc \notin {"course.findUnique", "session.findFirst"})
                         ELSE /\ Open(t.c)
                                   => /\ done'.out[1][1] = "CLASS_STARTED"
                                      /\ Got(done', "THOUGHTS_UPDATE")
                              /\ t.pc = "promptUse.findFirst" => casts' # casts]_vars

\* C29: a TEACHER_START_CLASS handler regenerates its join code at most 10
\* times, and when it ends on a connection that is still open it has either
\* sent CLASS_STARTED or sent ERROR.
C29_StartFailsWithError ==
    /\ \A i \in TaskIds :
          tasks[i].op = "TEACHER_START_CLASS" => tasks[i].x <= MaxAttempts
    /\ (done.op = "TEACHER_START_CLASS" /\ done.pc \in {"done", "threw"}
          /\ done.c \in Conns /\ Open(done.c))
         => \/ Got(done, "CLASS_STARTED")
            \/ Got(done, "ERROR")

V29_Rest ==
    /\ \A i \in TaskIds :
          tasks[i].op = "TEACHER_START_CLASS" => tasks[i].x <= MaxAttempts
    /\ (done.op = "TEACHER_START_CLASS" /\ done.pc = "threw")
         => ~Got(done, "CLASS_STARTED")
V29_Ten == ~(done.op = "TEACHER_START_CLASS" /\ done.pc = "threw" /\ done.x = MaxAttempts)
V29_TenT == ~(\E i \in TaskIds : tasks[i].op = "TEACHER_START_CLASS" /\ tasks[i].x = MaxAttempts)

\* C30: no exception escapes a command handler, and a SUBMIT_THOUGHT whose
\* insert the store rejects ends, on a connection that is still open, with
\* ERROR sent to the originating client.
C30_StoreFailureReported ==
    /\ done.pc # "threw"
    /\ (/\ done.op = "SUBMIT_THOUGHT"
        /\ done.pc \in {"done", "threw"}
        /\ done.n # 0
        /\ done.n \notin DOMAIN promptUses
        /\ done.c \in Conns /\ Open(done.c))
         => Got(done, "ERROR")

\* --------------------------------------------------------------- ADMIN_JOIN
\* the handler has no role check: `await userPromise`, then socket.join
AdminJoinReceive(k, c) ==
    /\ Open(c)
    /\ Receive(k, c, "ADMIN_JOIN", "ANY", AdminRoom, 0, "", "join")
    /\ UNCHANGED <<sock, rooms, store, roomAssignments, inbox, casts>>

AdminJoin(i) ==
    LET t == tasks[i]
    IN
    /\ t.op = "ADMIN_JOIN"
    /\ rooms' = Join(t.c, AdminRoom)
    /\ Finish(i, t)
    /\ UNCHANGED <<sock, store, roomAssignments, inbox, casts>>

\* ----------------------------------------------------------- ADMIN_GET_DATA
\* the awaited reads of the handler, in order
AdminReads == <<"session.findMany", "thought.findMany", "swapRequest.findMany",
                "log.findMany", "user.findMany", "fetchSockets", "emit">>

AdminGetDataReceive(k, c) ==
    /\ Open(c)
    /\ Receive(k, c, "ADMIN_GET_DATA", "ANY", AdminRoom, 0, "", AdminReads[1])
    /\ UNCHANGED <<sock, rooms, store, roomAssignments, inbox, casts>>

\* x counts the reads done; of adminData the model keeps stats.activeSessions
\* (n) and the ids of the thoughts read (ths)
AdminGetData(i) ==
    LET t == tasks[i]
        next == [t EXCEPT !.x = t.x + 1, !.pc = AdminReads[t.x + 2]]
    IN
    /\ t.op = "ADMIN_GET_DATA"
    /\ CASE t.pc = "session.findMany" ->
            Step(i, [next EXCEPT !.n = Cardinality({code \in Codes :
                                                     ActiveSession(code)})])
         [] t.pc = "thought.findMany" ->
            Step(i, [next EXCEPT !.ths = SetToSeq({n \in DOMAIN thoughts :
                                                     thoughts[n].live})])
         [] t.pc = "emit" ->
            \* socket.emit('ADMIN_DATA_UPDATE', adminData)
            Finish(i, [t EXCEPT !.out = Sent(t, "ADMIN_DATA_UPDATE", t.n)])
         [] OTHER -> Step(i, next)
    /\ UNCHANGED <<sock, rooms, store, roomAssignments, inbox, casts>>

\* An admin console next to a round in progress: any connection may send the
\* admin commands; connections close and the second teacher connects.
NextAdmin ==
    \/ Connect("T2", StoredRole("T2"), MaxConns)
    \/ \E c \in Conns :
        \/ AdminJoinReceive(SeqTasks, c)
        \/ AdminGetDataReceive(SeqTasks, c)
        \/ Disconnect(SeqTasks, c)
    \/ \E i \in TaskIds :
        \/ AdminJoin(i)
        \/ AdminGetData(i)
        \/ DisconnectHandler(i)

SpecAdmin == RoundInit /\ [][NextAdmin]_vars

\* C31: a connection whose user is not an ADMIN is never in the admin group
\* and no ADMIN_GET_DATA of such a connection ends with ADMIN_DATA_UPDATE sent.
C31_AdminOnly ==
    /\ \A c \in rooms[AdminRoom] : StoredRole(sock[c].user) = "ADMIN"
    /\ (done.op = "ADMIN_GET_DATA" /\ StoredRole(sock[done.c].user) # "ADMIN")
         => ~Got(done, "ADMIN_DATA_UPDATE")

\* the role each of these handlers compares the handshake's role with
RoleChecks == {<<"TEACHER_SEND_PROMPT", "TEACHER">>,
               <<"TEACHER_DELETE_THOUGHT", "TEACHER">>,
               <<"TRIGGER_SWAP", "TEACHER">>,
               <<"STUDENT_REQUEST_NEW_THOUGHT", "STUDENT">>,
               <<"END_SESSION", "TEACHER">>}

\* A round in which every connection sends every command, those of the
\* other role included.
NextRoles ==
    \/ \E c \in Conns :
        \/ SendPromptReceive(SeqTasks, c, MaxPrompts)
        \/ DeleteThoughtReceive(SeqTasks, c)
        \/ TriggerSwapReceive(SeqTasks, c)
        \/ RequestNewThoughtReceive(SeqTasks, c)
        \/ EndSessionReceive(SeqTasks, c)
        \/ \E rc \in RoleChecks : Refuse(c, rc[1], rc[2])
    \/ \E i \in TaskIds :
        \/ SendPrompt(i)
        \/ DeleteThought(i)
        \/ TriggerSwap(i)
        \/ RequestNewThought(i)
        \/ EndSession(i)
    \/ \E j \in TaskIds : broadcastParticipantList(j)

SpecRoles == RoundInit /\ [][NextRoles]_vars

\* the commands of the claim and the role each is reserved for
ReservedFor(op) ==
    CASE op \in {"TRIGGER_SWAP", "TEACHER_SEND_PROMPT", "END_SESSION",
                 "TEACHER_DELETE_THOUGHT"} -> "TEACHER"
      [] op = "STUDENT_REQUEST_NEW_THOUGHT" -> "STUDENT"
      [] OTHER -> "ANY"

\* C32: a command reserved for the other role is silently ignored: no handler
\* of such a command runs past its role check, and the step in which it is
\* received changes neither the store, the distributions nor the room groups
\* and sends no event to any connection.
C32_ForbiddenIgnored ==
    [][/\ \A i \in TaskIds :
            tasks'[i].op # "idle" =>
                ReservedFor(tasks'[i].op) \in {"ANY", sock'[tasks'[i].c].role}
       /\ (done'.op \notin {"idle", "broadcastParticipantList"}
            /\ ReservedFor(done'.op) \notin {"ANY", sock'[done'.c].role})
            => /\ UNCHANGED <<store, roomAssignments, rooms, inbox, casts, tasks>>
               /\ done'.out = <<>>
               /\ done'.sent = <<>>]_vars

C32_StudentSwapIgnored ==
    /\ done.op = "TRIGGER_SWAP"
    /\ done.pc = "done"
    /\ sock[done.c].role = "STUDENT"

\* T1 (socket 1), S1 (socket 2) and S2 (socket 3) have connected; nothing
\* else has happened.
Lobby ==
    /\ sock = [c \in Conns |->
                 CASE c = 1 -> [st |-> "open", user |-> "T1", role |-> "TEACHER"]
                   [] c = 2 -> [st |-> "open", user |-> "S1", role |-> "STUDENT"]
                   [] c = 3 -> [st |-> "open", user |-> "S2", role |-> "STUDENT"]
                   [] OTHER -> FreeSock]
    /\ rooms = [g \in Groups |-> {}]
    /\ courses = [code \in Codes |-> NoCourse]
    /\ sessions = [code \in Codes |-> NoSession]
    /\ promptUses = <<>>
    /\ thoughts = <<>>
    /\ swapRequests = [k \in Users \X Codes |-> 0]
    /\ roomAssignments = [code \in Codes |-> NoRoom]
    /\ tasks = [i \in TaskIds |-> IdleTask]
    /\ inbox = [c \in Conns |-> NoInbox]
    /\ casts = [j \in TaskIds |-> NoCast]

LobbyInit == Lobby /\ done = IdleTask
LobbyNotReached == ~Lobby

\* A class from its start to its end: the class starts, students join, a
\* prompt is sent, thoughts are submitted, deleted and asked for again, and
\* the session ends.
NextNotify ==
    \/ \E c \in Conns :
        \/ StartClassReceive(SeqTasks, c)
        \/ JoinRoomReceive(SeqTasks, c)
        \/ SendPromptReceive(SeqTasks, c, RoundPrompts)
        \/ SubmitThoughtReceive(SeqTasks, c, RoundThoughts)
        \/ DeleteThoughtReceive(SeqTasks, c)
        \/ RequestNewThoughtReceive(SeqTasks, c)
        \/ EndSessionReceive(SeqTasks, c)
    \/ \E i \in TaskIds :
        \/ StartClass(i)
        \/ JoinRoom(i)
        \/ SendPrompt(i)
        \/ SubmitThought(i)
        \/ DeleteThought(i)
        \/ RequestNewThought(i)
        \/ EndSession(i)
    \/ \E j \in TaskIds : broadcastParticipantList(j)

SpecNotify == LobbyInit /\ [][NextNotify]_vars

\* A class that is ended while it starts: TEACHER_START_CLASS and END_SESSION
\* handlers run interleaved.
NextEarlyEnd ==
    \/ \E c \in Conns :
        \/ StartClassReceive(RaceTasks, c)
        \/ EndSessionReceive(RaceTasks, c)
    \/ \E i \in TaskIds :
        \/ StartClass(i)
        \/ EndSession(i)
    \/ \E j \in TaskIds : broadcastParticipantList(j)

SpecEarlyEnd == LobbyInit /\ [][NextEarlyEnd]_vars

\* the handlers in flight and the handler that has just ended
Handlers == {tasks[i] : i \in TaskIds} \cup {done}

\* C33: a notification that reports a store write is sent only once the write
\* is in the store: CLASS_STARTED when the Course and Session exist, NEW_PROMPT
\* when its PromptUse exists, THOUGHT_DELETED when the Thought is removed,
\* RECEIVE_SWAP of a re-swap when the student has a SwapRequest row, and
\* SESSION_ENDED when the Session is COMPLETED.
C33_CommitBeforeNotify ==
    /\ \A t \in Handlers :
          Got(t, "CLASS_STARTED") =>
              courses[t.code].exists /\ sessions[t.code].exists
    /\ \A c \in Conns :
          inbox[c].prompt # 0 => inbox[c].prompt \in DOMAIN promptUses
    /\ (done.op = "TEACHER_DELETE_THOUGHT" /\ done.sent # <<>>)
          => ~thoughts[done.n].live
    /\ (done.op = "STUDENT_REQUEST_NEW_THOUGHT" /\ Got(done, "RECEIVE_SWAP"))
          => swapRequests[<<sock[done.c].user, done.code>>] >= 1
    /\ \A c \in Conns :
          inbox[c].ended => \E code \in Codes : sessions[code].status = "COMPLETED"

\* A class starting while students try to join: TEACHER_START_CLASS and
\* JOIN_ROOM handlers run interleaved.
NextAtomic ==
    \/ \E c \in Conns :
        \/ StartClassReceive(RaceTasks, c)
        \/ JoinRoomReceive(RaceTasks, c)
    \/ \E i \in TaskIds :
        \/ StartClass(i)
        \/ JoinRoom(i)
    \/ \E j \in TaskIds : broadcastParticipantList(j)

SpecAtomic == LobbyInit /\ [][NextAtomic]_vars

\* C34: a JOIN_ROOM is answered "This class session has ended." only for a
\* room whose session was ended: Course and Session appear together.
C34_CourseWithSession ==
    (done.op = "JOIN_ROOM" /\ Got(done, "ERROR")
       /\ done.out[1][2] = "This class session has ended.")
      => sessions[done.code].status = "COMPLETED"

\* handler i inserts a row in this step: it leaves the store call `create`
Inserts(i, create, code) ==
    /\ tasks[i].op = "TEACHER_START_CLASS"
    /\ tasks[i].pc = create
    /\ tasks[i].code = code
    /\ tasks'[i].op = "TEACHER_START_CLASS"
    /\ tasks'[i].pc # create

\* C35: a Course is inserted only under a joinCode that no Course has, and a
\* Session only for a Course that has no Session, however the
\* TEACHER_START_CLASS handlers interleave: no two Courses share a joinCode
\* and no Course has two ACTIVE Sessions.
C35_OneCoursePerCode ==
    [][\A code \in Codes, i \in TaskIds :
          /\ Inserts(i, "course.create", code) => ~courses[code].exists
          /\ Inserts(i, "session.create", code) => ~sessions[code].exists]_vars

C35_SecondStartRejected ==
    /\ done.op = "TEACHER_START_CLASS"
    /\ done.pc = "threw"
    /\ done.x = 0
    /\ courses[done.code].exists

\* C36: a STUDENT_REQUEST_NEW_THOUGHT ends with RECEIVE_SWAP sent only in a
\* room whose thoughts have been distributed by a TRIGGER_SWAP.
C36_SwapOnlyAfterTrigger ==
    (done.op = "STUDENT_REQUEST_NEW_THOUGHT" /\ Got(done, "RECEIVE_SWAP"))
      => /\ roomAssignments[done.code].has
         /\ roomAssignments[done.code].ent # <<>>

\* C37: every key of a room's Distribution is an open student connection in
\* the room's group.
C37_DistributionKeysPresent ==
    \A code \in Codes :
        \A c \in DOMAIN roomAssignments[code].ent :
            /\ Open(c)
            /\ sock[c].role = "STUDENT"
            /\ c \in rooms[code]

\* A second teacher visits a round: T2 connects and sends JOIN_ROOM, T1
\* triggers the swap.
NextGuest ==
    \/ Connect("T2", StoredRole("T2"), MaxConns)
    \/ \E c \in Conns :
        \/ JoinRoomReceive(SeqTasks, c)
        \/ TriggerSwapReceive(SeqTasks, c) /\ c = 1
    \/ \E i \in TaskIds :
        \/ JoinRoom(i)
        \/ TriggerSwap(i)
    \/ \E j \in TaskIds : broadcastParticipantList(j)

SpecGuest == RoundInit /\ [][NextGuest]_vars

\* C38: the DISTRIBUTION_UPDATE of a broadcast, which names the author of
\* every distributed thought, is sent only to connections of the teacher who
\* owns the room.
C38_AuthorsOnlyToOwner ==
    (/\ done.op = "broadcastParticipantList"
     /\ roomAssignments[done.code].has
     /\ roomAssignments[done.code].ent # <<>>)
      => \A c \in done.socks : sock[c].user = courses[done.code].teacherId

\* C39: a session goes from ACTIVE to COMPLETED only in a step of an
\* END_SESSION handler or when its teacher has no open connection left.
C39_ActiveWhileTeacherPresent ==
    [][\A code \in Codes :
          (sessions[code].status = "ACTIVE" /\ sessions'[code].status = "COMPLETED")
            => \/ \E i \in TaskIds : tasks[i].op = "END_SESSION" /\ tasks'[i] # tasks[i]
               \/ ~\E c \in Conns : /\ sock'[c].st = "open"
                                    /\ sock'[c].user = courses[code].teacherId]_vars

\* the ids of the Thought rows of the session of a room
SessionThoughts(ths, code) ==
    {n \in DOMAIN ths : promptUses[ths[n].pu].session = code}

\* C40: a session never leaves COMPLETED, and no step adds a Thought,
\* PromptUse or SwapRequest to a COMPLETED session, changes its
\* maxSwapRequests or creates a Distribution for its joinCode.
C40_CompletedIsFrozen ==
    [][\A code \in Codes :
          sessions[code].status = "COMPLETED"
            => /\ sessions'[code] = sessions[code]
               /\ SessionThoughts(thoughts', code) = SessionThoughts(thoughts, code)
               /\ LatestPromptUse(code)' = LatestPromptUse(code)
               /\ \A u \in Users : swapRequests'[<<u, code>>] = swapRequests[<<u, code>>]
               /\ roomAssignments'[code].has => roomAssignments[code].has]_vars

====
